---- MODULE Spec2Model ----
(***************************************************************************)
(* The resumable ingestion pipeline of iety (iety/ingestion/base.py) with  *)
(* the source adapters that implement its three hooks, as a state machine. *)
(*                                                                         *)
(* A run of BasePipeline.run is split at its suspension points: loading    *)
(* the checkpoint, the limit check and fetch_batch, the transform loop,    *)
(* upsert, the advance of the checkpoint (with its periodic save) and the  *)
(* final save.  The database is the row of integration.sync_state and the  *)
(* adapter's target table.  The process may be killed between two steps.   *)
(***************************************************************************)
EXTENDS Integers, Sequences, FiniteSets, TLC

\* ------------------------------------------------------------------ bounds
MaxPages == 3        \* pages (files, snapshots) of the source, specification Spec
LongPages == 11      \* pages of the source, specification SpecLong
BatchSize == 3       \* records per page
MaxRuns == 2         \* runs of the pipeline, specification Spec
LongRuns == 2        \* runs of the pipeline, specification SpecLong
MaxFaults == 2       \* injected failures (fetch, upsert, row, kill) per history
NumCallers == 2      \* concurrent tasks using the breakers and the embedding service
NumBreakers == 2     \* BudgetCircuitBreaker instances over the one ledger
MaxEntries == 2      \* ledger entries after which no embedding request starts
MaxCallbacks == 2    \* callbacks registered on a breaker
MaxMonths == 1       \* month boundaries crossed
MaxSpends == 2       \* ledger entries written by other services
NumTasks == 3        \* tasks that share a token bucket
MaxAmount == 3       \* most tokens one call asks for
MaxTries == 4        \* calls counted on a new bucket
TextLen == 6         \* tokens of the longest text given to TextChunker
MaxWindow == 3       \* largest max_tokens of a chunker
MaxChunks == 8       \* chunks of one call that are recorded
MaxSentences == 3    \* sentences of the longest text given to SentenceChunker
MaxIds == 3          \* rows that a query may rank in any order
NumRows == 6         \* rows of the longest ranking
MaxSearches == 2     \* search requests
MaxEntities == 2     \* canonical entities ever created
MaxValues == 2       \* values of one identifier type
MaxStatements == 2   \* searches of the agent memory
MaxEstimate == 2     \* largest cost can_spend is asked about, in units of 2.50

\* ------------------------------------------------------- program constants
CheckpointEvery == 10   \* base.py: if batch_count % 10 == 0
FallbackOverlap == 50
NoLimit == -1           \* max_batches=None
MonthlyBudget == 20     \* Decimal("50.00"), in units of 2.50
WarningThreshold == 90  \* 0.90, in percent
HaltThreshold == 95     \* 0.95, in percent
VoyageRate == 1         \* COST_RATES["voyage"]["embed"]: spend units per token unit
RRF_K == 60             \* HybridSearch.RRF_K
VectorWeight == 7       \* vector_weight = 0.7, in tenths
KeywordWeight == 3      \* keyword_weight = 0.3, in tenths
TopIds == 5             \* log_search: response.results[:5]
DefaultThreshold == 60  \* EntityResolver.DEFAULT_THRESHOLD = 0.6, in percent
AutoLinkThreshold == 85 \* matches[0].similarity >= 0.85, in percent

Adapters ==
    {"generic", "usaspending", "sec", "courtlistener", "courtlistener_dockets",
     "gdelt", "opensky", "adsbexchange"}

VARIABLES
    adapter,        \* which BasePipeline subclass runs
    numPages,       \* size of the external source
    runsLeft,       \* runs the operator may still start
    faults,         \* failures injected so far
    latest,         \* external world: latest GDELT file / flight snapshot
    syncState,      \* the pipeline's row of integration.sync_state
    table,          \* the adapter's target table: rows stored per record
    pc,             \* position of the run
    max_batches, dry_run, resumed,          \* arguments of run()
    checkpoint, new_checkpoint,             \* locals of run()
    records, transformed, batch_count,      \* locals of run()
    stats,          \* self._stats
    raised,         \* the exception that left run(), "none" if none
    hist,           \* history of the run, for stating the properties
    cost_log,       \* integration.cost_log: this month's total, all entries
    embeddings,     \* integration.embeddings: the content hashes stored
    breaker,        \* each BudgetCircuitBreaker: _state, _state_callbacks
    caller,         \* each task that uses a breaker or the embedding service
    sent,           \* per text, the provider calls that carried it, up to 2
    bucket,         \* a TokenBucket: tokens, time since last_refill
    lock,           \* its asyncio.Lock: the holder, then the waiters in order
    task,           \* each task that calls acquire or try_acquire
    inst,           \* history of the bucket, for stating the properties
    net,            \* the limiter registry and the calls that send requests
    chunker,        \* a chunk_text call: its arguments, locals and chunks
    searcher,       \* a HybridSearch: its request, response and search_log
    resolver,       \* canonical_entities and entity_identifiers, the last call
    thresholds,     \* BudgetSettings and a breaker built with thresholds
    memory          \* the statements MemoryStore.search has issued

\* The cost ledger, the circuit breakers and the embedding service.
costVars == <<cost_log, embeddings, breaker, caller, sent>>

\* The token bucket rate limiter.
bucketVars == <<bucket, lock, task, inst>>

\* The subsystems that follow: outbound requests, chunking.
restVars == <<net, chunker, searcher, resolver, thresholds, memory>>

\* What a step of the ingestion pipeline leaves alone.
offPipeline == <<costVars, bucketVars, restVars>>

vars == <<adapter, numPages, runsLeft, faults, latest, syncState, table, pc,
          max_batches, dry_run, resumed, checkpoint, new_checkpoint,
          records, transformed, batch_count, stats, raised, hist, costVars,
          bucketVars, restVars>>

\* ------------------------------------------------------------- data model

\* PipelineCheckpoint(): cursor None is 0, last_date None is "none",
\* metadata carries only the key an adapter reads back (last_url).
DefaultCheckpoint ==
    [cursor |-> 0, page |-> 0, offset |-> 0, last_id |-> "none",
     last_date |-> "none", last_url |-> 0]

\* PipelineStats()
ZeroStats ==
    [records_fetched |-> 0, records_transformed |-> 0, records_upserted |-> 0,
     records_skipped |-> 0, errors |-> 0, batches_processed |-> 0,
     last_error |-> "none"]

\* No row of sync_state for this pipeline_name.
NoRow ==
    [exists |-> FALSE, checkpoint |-> DefaultCheckpoint, records_processed |-> 0,
     status |-> "idle", last_error |-> "none"]

Min(a, b) == IF a < b THEN a ELSE b

Range(s) == {s[i] : i \in 1..Len(s)}

\* ------------------------------------------------------ the external source

\* The records of page p of the source, identified by page and position.
PageRecs(p) == [i \in 1..BatchSize |-> <<p, i>>]

\* What a record is like: "ok" is well formed, "skip" is one the adapter
\* filters out or finds no data for, "bad" is one its code fails on.
Kind(r) ==
    CASE r[1] % 3 = 1 -> "ok"
      [] r[1] % 3 = 2 -> (IF r[2] = 1 THEN "bad" ELSE IF r[2] = 2 THEN "skip" ELSE "ok")
      [] OTHER -> "skip"

RecIds == (1..numPages) \X (1..BatchSize)

\* ------------------------------------------------------ checkpoint storage

\* checkpoint.last_date.isoformat() on a last_date that is already a string
SaveRaises(ckpt) == ckpt.last_date = "isostring"

\* checkpoint_data of save_checkpoint
ToJson(ckpt) ==
    [ckpt EXCEPT !.last_date = IF @ = "datetime" THEN "isostring" ELSE "none"]

\* The INSERT ... ON CONFLICT (pipeline_name) DO UPDATE of save_checkpoint.
SaveCheckpoint(ss, ckpt, status, error, upserted) ==
    IF ss.exists
    THEN [exists |-> TRUE,
          checkpoint |-> ToJson(ckpt),
          records_processed |-> ss.records_processed + upserted,
          status |-> status,
          last_error |-> IF error # "none" THEN error ELSE ss.last_error]
    ELSE [exists |-> TRUE,
          checkpoint |-> ToJson(ckpt),
          records_processed |-> upserted,
          status |-> status,
          last_error |-> error]

\* get_checkpoint: the stored JSON read back field by field; last_date is
\* not parsed and stays the string save_checkpoint wrote.
GetCheckpoint(ss) ==
    IF ~ss.exists
    THEN DefaultCheckpoint
    ELSE [cursor |-> ss.checkpoint.cursor,
          page |-> ss.checkpoint.page,
          offset |-> ss.checkpoint.offset,
          last_id |-> ss.checkpoint.last_id,
          last_date |-> ss.checkpoint.last_date,
          last_url |-> ss.checkpoint.last_url]

\* ------------------------------------------------------------- fetch_batch

\* The documented contract: a page-numbered source.
GenericFetch(ckpt) ==
    LET page == ckpt.page + 1 IN
    [records |-> IF page <= numPages THEN PageRecs(page) ELSE <<>>,
     ckpt |-> [DefaultCheckpoint EXCEPT !.page = page]]

USASpendingFetch(ckpt) ==
    LET page == ckpt.page + 1
        results == IF page <= numPages THEN PageRecs(page) ELSE <<>>
    IN  [records |-> results,
         ckpt |-> [DefaultCheckpoint EXCEPT !.page = page]]

\* cik_list holds numPages * BatchSize CIKs; CIK j is record CikRec(j); a CIK
\* of kind "skip" has no companyfacts (404) and yields no record.
CikRec(j) == <<((j - 1) \div BatchSize) + 1, ((j - 1) % BatchSize) + 1>>

SECFetch(ckpt) ==
    LET offset == ckpt.offset
        last == Min(offset + BatchSize, numPages * BatchSize)
        batch_ciks == [k \in 1..(IF last > offset THEN last - offset ELSE 0)
                          |-> CikRec(offset + k)]
    IN  IF batch_ciks = <<>>
        THEN [records |-> <<>>, ckpt |-> ckpt]
        ELSE [records |-> SelectSeq(batch_ciks, LAMBDA r : Kind(r) # "skip"),
              ckpt |-> [DefaultCheckpoint EXCEPT !.offset = offset + Len(batch_ciks)]]

\* The API's cursor for page k is k; without a cursor it serves page 1; the
\* last page has next = null.
CourtListenerFetch(ckpt) ==
    LET idx == IF ckpt.cursor # 0 THEN ckpt.cursor ELSE 1
        results == IF idx <= numPages THEN PageRecs(idx) ELSE <<>>
        next_cursor == IF idx < numPages THEN idx + 1 ELSE 0
    IN  [records |-> results,
         ckpt |-> [DefaultCheckpoint EXCEPT !.cursor = next_cursor,
                                            !.page = ckpt.page + 1]]

CourtListenerDocketFetch(ckpt) ==
    LET idx == IF ckpt.cursor # 0 THEN ckpt.cursor ELSE 1
        results == IF idx <= numPages THEN PageRecs(idx) ELSE <<>>
        next_url == IF idx < numPages THEN idx + 1 ELSE 0
    IN  [records |-> results,
         ckpt |-> [DefaultCheckpoint EXCEPT !.cursor = next_url,
                                            !.page = ckpt.page + 1]]

\* url is the export file lastupdate.txt names (0: none); file u holds page u.
GDELTFetch(ckpt, url) ==
    IF url = 0
    THEN [records |-> <<>>, ckpt |-> ckpt]
    ELSE IF ckpt.last_url = url
    THEN [records |-> <<>>, ckpt |-> ckpt]
    ELSE [records |-> PageRecs(url),
          ckpt |-> [DefaultCheckpoint EXCEPT !.last_date = "datetime",
                                             !.last_url = url]]

\* _fetch_aircraft_states: snapshot tick of the tracked aircraft (0: no
\* states).  A state vector of kind "skip" is shorter than 17 fields; one of
\* kind "bad" has neither last_contact nor time_position, fromtimestamp
\* raises and the except clause returns [] for the whole response.
OpenSkyStates(tick) ==
    IF tick = 0 THEN <<>>
    ELSE IF \E r \in Range(PageRecs(tick)) : Kind(r) = "bad" THEN <<>>
    ELSE SelectSeq(PageRecs(tick), LAMBDA r : Kind(r) # "skip")

OpenSkyFetch(ckpt, tick) ==
    [records |-> OpenSkyStates(tick),
     ckpt |-> [DefaultCheckpoint EXCEPT !.last_date = "datetime"]]

\* One request per aircraft; every failure and every empty answer is None.
ADSBExchangeFetch(ckpt, tick) ==
    [records |-> IF tick = 0 THEN <<>>
                 ELSE SelectSeq(PageRecs(tick), LAMBDA r : Kind(r) = "ok"),
     ckpt |-> [DefaultCheckpoint EXCEPT !.last_date = "datetime"]]

FetchBatch(a, ckpt, env) ==
    CASE a = "generic" -> GenericFetch(ckpt)
      [] a = "usaspending" -> USASpendingFetch(ckpt)
      [] a = "sec" -> SECFetch(ckpt)
      [] a = "courtlistener" -> CourtListenerFetch(ckpt)
      [] a = "courtlistener_dockets" -> CourtListenerDocketFetch(ckpt)
      [] a = "gdelt" -> GDELTFetch(ckpt, env)
      [] a = "opensky" -> OpenSkyFetch(ckpt, env)
      [] OTHER -> ADSBExchangeFetch(ckpt, env)

\* The adapters whose source is the state of the outside world at fetch time.
Polling == {"gdelt", "opensky", "adsbexchange"}

\* --------------------------------------------------------------- transform

\* What transform does with a record of kind k: "row" returns a dict, "none"
\* returns None, "raise" raises.  The generic pipeline is the contract of
\* BasePipeline.transform; the adapters wrap their body in try/except and
\* return None, the flight trackers have no filter and no try.
TransformResult(a, k) ==
    CASE a = "generic" ->
            (IF k = "ok" THEN "row" ELSE IF k = "skip" THEN "none" ELSE "raise")
      [] a \in {"usaspending", "gdelt"} ->
            (IF k = "ok" THEN "row" ELSE "none")
      [] a \in {"sec", "courtlistener", "courtlistener_dockets"} ->
            (IF k = "bad" THEN "none" ELSE "row")
      [] OTHER ->
            (IF k = "bad" THEN "raise" ELSE "row")

\* One pass of "for record in records" of run(): the try/except around
\* transform, with the three counters.  calls counts the calls of transform.
TransformStep(a, r, acc) ==
    LET res == TransformResult(a, Kind(r)) IN
    CASE res = "row" ->
            [acc EXCEPT !.transformed = Append(@, r),
                        !.records_transformed = @ + 1,
                        !.calls = @ + 1]
      [] res = "none" ->
            [acc EXCEPT !.records_skipped = @ + 1, !.calls = @ + 1]
      [] OTHER ->
            [acc EXCEPT !.errors = @ + 1, !.calls = @ + 1]

\* TransformLoop that gives up the batch at the first record that raises.
RECURSIVE TransformLoopAbort(_, _, _)
TransformLoopAbort(a, recs, acc) ==
    IF recs = <<>> THEN acc
    ELSE IF TransformResult(a, Kind(Head(recs))) = "raise"
    THEN TransformStep(a, Head(recs), acc)
    ELSE TransformLoopAbort(a, Tail(recs), TransformStep(a, Head(recs), acc))

RECURSIVE TransformLoop(_, _, _)
TransformLoop(a, recs, acc) ==
    IF recs = <<>> THEN acc
    ELSE TransformLoop(a, Tail(recs), TransformStep(a, Head(recs), acc))

\* ------------------------------------------------------------------ upsert

\* The rows a table holds for one record after one more INSERT of it into a
\* table that held n: ON CONFLICT (natural key) DO UPDATE keeps one row;
\* gdelt.events conflicts on (id, month_key) with id a fresh UUID, and
\* flights.observations has no unique key, so both insert another row.
RowsAfterInsert(a, n) ==
    CASE a \in {"generic", "usaspending", "sec", "courtlistener",
                "courtlistener_dockets"} -> 1
      [] a = "gdelt" -> n + 1
      [] OTHER -> n + 1

\* The adapters' "for record in records: try: execute ... except: log": the
\* rows in failing are logged and left out, affected counts the others.
AdapterUpsert(a, t, rows, failing) ==
    LET done == Range(rows) \ failing IN
    [table |-> [r \in DOMAIN t |-> IF r \in done THEN RowsAfterInsert(a, t[r]) ELSE t[r]],
     affected |-> Cardinality(done)]

\* Which rows' execute may fail without upsert raising: none under the
\* contract of BasePipeline.upsert, any under the adapters' try/except.
SwallowsRowErrors(a) == a # "generic"

\* --------------------------------------------------------------- the run

Ended == {"idle", "done", "failed", "killed"}
Running == {"fetch", "transform", "upsert", "advance", "final"}

MaxBatchesArgs == {NoLimit} \cup (0..2)

\* The history of one run, reset when the next starts.
NewRunHist(h, reset) ==
    [h EXCEPT !.clean = @ /\ ~reset,
              !.upsertRaised = FALSE,
              !.loopExit = "none",
              !.fetchLog = <<>>,
              !.fetches = 0,
              !.transformCalls = 0,
              !.upsertErrs = 0,
              !.runIngested = {},
              !.passed = {}]

InitHist ==
    [clean |-> TRUE, upsertRaised |-> FALSE, loopExit |-> "none",
     fetchLog |-> <<>>, fetches |-> 0, transformCalls |-> 0, upsertErrs |-> 0,
     runIngested |-> {}, ingested |-> {}, cumUpserted |-> 0, passed |-> {}]

\* ------------------------------------- cost ledger, breakers, embeddings

Callers == 1..NumCallers
Breakers == 1..NumBreakers
Texts == {"a", "b"}

\* The text lists a request may carry: one text, two texts, one text twice.
TextLists == {<<"a">>, <<"b">>, <<"a", "b">>, <<"a", "a">>}

\* No exception.
NoError ==
    [kind |-> "none", current_spend |-> 0, budget_limit |-> 0, percent_used |-> 0]

\* No BudgetStatus yet.
NoStatus ==
    [state |-> "none", current_spend |-> 0, budget_limit |-> 0,
     percent_used |-> 0, remaining |-> 0]

\* BudgetCircuitBreaker.__init__: _state NORMAL, no callbacks.  prev and
\* notified record the last _update_state: the state it found and the
\* callback invocations it made.
NewBreaker ==
    [state |-> "NORMAL", callbacks |-> 0, prev |-> "NORMAL", notified |-> <<>>]

\* A task between operations.  calls, entries, used and billed count the
\* provider calls that returned to the current request, its ledger entries,
\* and the tokens of both; estimated_cost and answer are the argument and
\* the result of can_spend.
IdleCaller ==
    [pc |-> "idle", op |-> "none", b |-> 1, texts |-> <<>>, read |-> 0,
     status |-> NoStatus, err |-> NoError, todo |-> <<>>, tokens |-> 0,
     calls |-> 0, entries |-> 0, used |-> 0, billed |-> 0, body |-> "none",
     estimated_cost |-> 0, answer |-> "none"]

\* Nobody uses the ledger, the breakers or the embedding service.
CostIdle ==
    /\ cost_log = [total |-> 0, count |-> 0, months |-> 0, spends |-> 0]
    /\ embeddings = {}
    /\ breaker = [b \in Breakers |-> NewBreaker]
    /\ caller = [c \in Callers |-> IdleCaller]
    /\ sent = [t \in Texts |-> 0]

\* ------------------------------------------------------------ pipeline run

\* ------------------------------------------------------------ token bucket

Tasks == 1..NumTasks

\* RateLimitConfig(name="test", rate, period, burst): 3 tokens per 3 ticks,
\* bursts of 2.
TestConfig == [rate |-> 3, period |-> 3, burst |-> 2]

\* A bucket created with tokens = rate.
PostInitRate(config) == [tokens |-> config.rate, elapsed |-> 0]

\* TokenBucket.__post_init__: tokens = burst, last_refill = now.
PostInit(config) == [tokens |-> config.burst, elapsed |-> 0]

IdleTask == [pc |-> "idle", op |-> "none", tokens |-> 0, wait_time |-> 0,
             sleep |-> 0, result |-> "none"]

NewHistory ==
    [avail |-> TestConfig.burst, immediate |-> 0, deducted |-> 0,
     fresh |-> TRUE, pure |-> TRUE, tries |-> 0, ok |-> 0,
     metered |-> FALSE, slack |-> 0]

\* A bucket nobody uses.
BucketIdle ==
    /\ bucket = PostInit(TestConfig)
    /\ lock = <<>>
    /\ task = [c \in Tasks |-> IdleTask]
    /\ inst = NewHistory

\* -------------------------------------------------------- outbound requests

\* The functions that send a request to an external service.
RequestSites ==
    {"USASpendingPipeline._search_awards",
     "SECCompanyFactsPipeline._fetch_companyfacts",
     "CourtListenerPipeline._search_opinions",
     "CourtListenerPipeline._get_opinion_detail",
     "CourtListenerPipeline._get_docket",
     "CourtListenerDocketPipeline._search_dockets",
     "GDELTPoller._get_latest_update_url",
     "GDELTPoller._download_and_parse_csv",
     "OpenSkyPipeline._fetch_aircraft_states",
     "OpenSkyPipeline._fetch_flight_history",
     "ADSBExchangePipeline._fetch_by_icao24",
     "ADSBExchangePipeline._fetch_by_registration",
     "EmbeddingService._call_voyage_api",
     "EmbeddingService.embed_query"}

\* The service a function sends its request to.
ServiceOf(site) ==
    CASE site = "USASpendingPipeline._search_awards" -> "usaspending"
      [] site = "SECCompanyFactsPipeline._fetch_companyfacts" -> "sec"
      [] site \in {"CourtListenerPipeline._search_opinions",
                   "CourtListenerPipeline._get_opinion_detail",
                   "CourtListenerPipeline._get_docket",
                   "CourtListenerDocketPipeline._search_dockets"} -> "courtlistener"
      [] site \in {"GDELTPoller._get_latest_update_url",
                   "GDELTPoller._download_and_parse_csv"} -> "gdelt"
      [] site \in {"OpenSkyPipeline._fetch_aircraft_states",
                   "OpenSkyPipeline._fetch_flight_history"} -> "opensky"
      [] site \in {"ADSBExchangePipeline._fetch_by_icao24",
                   "ADSBExchangePipeline._fetch_by_registration"} -> "adsbexchange"
      [] OTHER -> "voyage"

\* The @rate_limited(name) decorator a function carries, "none" without one.
RateLimitedAs(site) ==
    CASE site = "USASpendingPipeline._search_awards" -> "usaspending"
      [] site = "SECCompanyFactsPipeline._fetch_companyfacts" -> "sec"
      [] site \in {"CourtListenerPipeline._search_opinions",
                   "CourtListenerPipeline._get_opinion_detail",
                   "CourtListenerPipeline._get_docket",
                   "CourtListenerDocketPipeline._search_dockets"} -> "courtlistener"
      [] site \in {"GDELTPoller._get_latest_update_url",
                   "GDELTPoller._download_and_parse_csv"} -> "gdelt"
      [] site = "EmbeddingService._call_voyage_api" -> "voyage"
      [] OTHER -> "none"

\* The keys of DEFAULT_RATE_LIMITS.
DefaultRateLimits == {"sec", "courtlistener", "voyage", "usaspending", "gdelt"}

\* The tasks that send requests.
Clients == {"ingest", "embed"}

IdleClient == [pc |-> "idle", site |-> "none", acquired |-> "none"]

\* RateLimiterRegistry(): no limiter yet; nobody sends.
NetIdle == [limiters |-> {}, client |-> [c \in Clients |-> IdleClient]]

\* ----------------------------------------------------------------- chunking

\* No chunk_text call.  rounds is the parity of the rounds the while loop has
\* taken.
ChunkerIdle ==
    [pc |-> "idle", kind |-> "none", max_tokens |-> 1, overlap_tokens |-> 0,
     total_tokens |-> 0, token_start |-> 0, chunk_index |-> 0, chunks |-> <<>>,
     sentences |-> <<>>, next |-> 1, current_sentences |-> <<>>,
     current_tokens |-> 0, overlap_sentences |-> 0, rounds |-> 0]

\* ------------------------------------------------------------------- search

\* SearchResponse: none yet.
NoResponse == [query |-> "none", results |-> <<>>, total_count |-> 0,
               search_type |-> "none"]

\* HybridSearch(session, embedding_service) before any request, and an empty
\* integration.search_log.
SearcherIdle ==
    [pc |-> "idle", query |-> "none", limit |-> 0, search_type |-> "none",
     vector_results |-> <<>>, keyword_results |-> <<>>,
     response |-> NoResponse, served |-> 0, search_log |-> <<>>]

\* -------------------------------------------------------- entity resolution

\* No call yet.
NoCall == [op |-> "none", primary |-> 0, secondary |-> 0]

\* The two tables after the migration: no canonical entity, no identifier.
\* next_id stands for gen_random_uuid(): an id is never given twice.
\* names[id] is the canonical_name the entity id was created with.
ResolverIdle ==
    [entities |-> {}, names |-> <<>>, identifiers |-> {}, next_id |-> 1,
     last |-> NoCall]

\* ------------------------------------------------------- budget thresholds

\* No BudgetSettings loaded, no breaker built with thresholds of its own.
\* Thresholds are in percent.
BudgetIdle ==
    [settings |-> "none", built |-> FALSE, warning_threshold |-> 0,
     halt_threshold |-> 0, percent_used |-> 0, state |-> "none"]

\* The subsystems that follow stand still.
RestIdle ==
    /\ net = NetIdle
    /\ chunker = ChunkerIdle
    /\ searcher = SearcherIdle
    /\ resolver = ResolverIdle
    /\ thresholds = BudgetIdle
    /\ memory = <<>>

InitCommon ==
    /\ faults = 0
    /\ latest = 0
    /\ syncState = NoRow
    /\ table = [r \in RecIds |-> 0]
    /\ pc = "idle"
    /\ max_batches = NoLimit
    /\ dry_run = FALSE
    /\ resumed = TRUE
    /\ checkpoint = DefaultCheckpoint
    /\ new_checkpoint = DefaultCheckpoint
    /\ records = <<>>
    /\ transformed = <<>>
    /\ batch_count = 0
    /\ stats = ZeroStats
    /\ raised = "none"
    /\ hist = InitHist

Init ==
    /\ adapter \in Adapters
    /\ numPages = MaxPages
    /\ runsLeft = MaxRuns
    /\ InitCommon
    /\ CostIdle
    /\ BucketIdle
    /\ RestIdle

InitLong ==
    /\ adapter = "generic"
    /\ numPages = LongPages
    /\ runsLeft = LongRuns
    /\ InitCommon
    /\ CostIdle
    /\ BucketIdle
    /\ RestIdle

\* run(max_batches, dry_run, reset_checkpoint): reset the stats and load the
\* checkpoint.
StartRun ==
    /\ pc \in Ended
    /\ runsLeft > 0
    /\ \E mb \in MaxBatchesArgs, dry \in BOOLEAN, reset \in BOOLEAN :
        /\ max_batches' = mb
        /\ dry_run' = dry
        /\ resumed' = ~reset
        /\ checkpoint' = IF reset THEN DefaultCheckpoint ELSE GetCheckpoint(syncState)
        /\ hist' = [NewRunHist(hist, reset) EXCEPT
                      !.passed = {IF reset THEN DefaultCheckpoint
                                  ELSE GetCheckpoint(syncState)}]
    /\ runsLeft' = runsLeft - 1
    /\ new_checkpoint' = DefaultCheckpoint
    /\ records' = <<>>
    /\ transformed' = <<>>
    /\ batch_count' = 0
    /\ stats' = ZeroStats
    /\ raised' = "none"
    /\ pc' = "fetch"
    /\ UNCHANGED <<offPipeline, adapter, numPages, faults, latest, syncState, table>>

LimitHit == max_batches # NoLimit /\ batch_count >= max_batches

\* "if max_batches is not None and batch_count >= max_batches: break"
LimitReached ==
    /\ pc = "fetch"
    /\ LimitHit
    /\ pc' = "final"
    /\ hist' = [hist EXCEPT !.loopExit = "max"]
    /\ UNCHANGED <<offPipeline, adapter, numPages, runsLeft, faults, latest, syncState, table,
                   max_batches, dry_run, resumed, checkpoint, new_checkpoint,
                   records, transformed, batch_count, stats, raised>>

\* How the outside world may have moved when a polling adapter fetches: the
\* next file or snapshot is out, or not yet; ADS-B Exchange stamps every
\* answer with the time of the request.
EnvNext ==
    CASE adapter \in {"gdelt", "opensky"} -> {latest, Min(latest + 1, numPages)}
      [] adapter = "adsbexchange" -> {latest + 1}
      [] OTHER -> {latest}

\* fetch_batch returned: count the records, leave the loop on an empty list.
FetchOk ==
    /\ pc = "fetch"
    /\ ~LimitHit
    /\ batch_count <= numPages
    /\ \E env \in EnvNext :
        /\ env <= numPages
        /\ latest' = env
        /\ LET got == FetchBatch(adapter, checkpoint, env) IN
            /\ records' = got.records
            /\ new_checkpoint' = got.ckpt
            /\ stats' = [stats EXCEPT !.records_fetched = @ + Len(got.records)]
            /\ pc' = IF got.records = <<>> THEN "final" ELSE "transform"
            /\ hist' = [hist EXCEPT
                          !.fetches = @ + 1,
                          !.loopExit = IF got.records = <<>> THEN "empty" ELSE @,
                          !.fetchLog = IF got.records = <<>> THEN @
                                       ELSE Append(@, got.records[1][1])]
    /\ UNCHANGED <<offPipeline, adapter, numPages, runsLeft, faults, syncState, table,
                   max_batches, dry_run, resumed, checkpoint, transformed,
                   batch_count, raised>>

\* OnFetchError that saves the checkpoint with status "error".
OnFetchErrorSaves(ss, ckpt, upserted) ==
    IF SaveRaises(ckpt) THEN ss
    ELSE SaveCheckpoint(ss, ckpt, "error", "fetch_error", upserted)

\* What the handler of a failed fetch_batch leaves in sync_state: the
\* "except Exception" of run() saves nothing.
OnFetchError(ss, ckpt, upserted) == ss

\* fetch_batch raised: the outer "except Exception" records it and re-raises.
FetchRaises ==
    /\ pc = "fetch"
    /\ ~LimitHit
    /\ batch_count <= numPages
    /\ faults < MaxFaults
    /\ faults' = faults + 1
    /\ stats' = [stats EXCEPT !.last_error = "fetch_error"]
    /\ syncState' = OnFetchError(syncState, checkpoint, stats.records_upserted)
    /\ raised' = "fetch_error"
    /\ pc' = "failed"
    /\ hist' = [hist EXCEPT !.fetches = @ + 1, !.clean = FALSE]
    /\ UNCHANGED <<offPipeline, adapter, numPages, runsLeft, latest, table, max_batches,
                   dry_run, resumed, checkpoint, new_checkpoint, records,
                   transformed, batch_count>>

\* "for record in records": every record through transform.
TransformBatch ==
    /\ pc = "transform"
    /\ LET acc == TransformLoop(adapter, records,
                      [transformed |-> <<>>,
                       records_transformed |-> stats.records_transformed,
                       records_skipped |-> stats.records_skipped,
                       errors |-> stats.errors,
                       calls |-> hist.transformCalls]) IN
        /\ transformed' = acc.transformed
        /\ stats' = [stats EXCEPT !.records_transformed = acc.records_transformed,
                                  !.records_skipped = acc.records_skipped,
                                  !.errors = acc.errors]
        /\ hist' = [hist EXCEPT !.transformCalls = acc.calls]
    /\ pc' = "upsert"
    /\ UNCHANGED <<offPipeline, adapter, numPages, runsLeft, faults, latest, syncState, table,
                   max_batches, dry_run, resumed, checkpoint, new_checkpoint,
                   records, batch_count, raised>>

\* upsert called for every batch that has rows.
UpsertCalledInDryRun == transformed # <<>>

\* "if transformed and not dry_run": is upsert called for this batch
UpsertCalled == transformed # <<>> /\ ~dry_run

\* The sets of rows whose INSERT may fail in one call of upsert.
RowFailures ==
    {{}} \cup (IF SwallowsRowErrors(adapter) /\ faults < MaxFaults
               THEN {{r} : r \in Range(transformed)} ELSE {})

\* upsert returned (or was not called): add what it reports to the stats.
UpsertBatch ==
    /\ pc = "upsert"
    /\ IF UpsertCalled
       THEN \E failing \in RowFailures :
              LET res == AdapterUpsert(adapter, table, transformed, failing) IN
                /\ table' = res.table
                /\ stats' = [stats EXCEPT !.records_upserted = @ + res.affected]
                /\ faults' = faults + Cardinality(failing)
                /\ hist' = [hist EXCEPT
                              !.clean = @ /\ failing = {},
                              !.runIngested = @ \cup {records[1][1]},
                              !.ingested = @ \cup {records[1][1]}]
       ELSE /\ UNCHANGED <<table, stats, faults>>
            /\ hist' = IF dry_run THEN hist
                       ELSE [hist EXCEPT !.runIngested = @ \cup {records[1][1]},
                                         !.ingested = @ \cup {records[1][1]}]
    /\ pc' = "advance"
    /\ UNCHANGED <<offPipeline, adapter, numPages, runsLeft, latest, syncState, max_batches,
                   dry_run, resumed, checkpoint, new_checkpoint, records,
                   transformed, batch_count, raised>>

\* The checkpoint the handler of a failed upsert saves: the one the failed
\* batch was fetched with.
ErrorCheckpoint(ckpt, new_ckpt) == ckpt

\* upsert raised: count it, save the checkpoint with status "error", re-raise.
\* Nothing of the batch is committed.  A save_checkpoint that raises itself
\* replaces the exception and leaves sync_state as it was.
UpsertRaises ==
    /\ pc = "upsert"
    /\ UpsertCalled
    /\ faults < MaxFaults
    /\ faults' = faults + 1
    /\ LET ckpt == ErrorCheckpoint(checkpoint, new_checkpoint) IN
       IF SaveRaises(ckpt)
       THEN /\ syncState' = syncState
            /\ raised' = "attribute_error"
            /\ stats' = [stats EXCEPT !.errors = @ + 1,
                                      !.last_error = "attribute_error"]
       ELSE /\ syncState' = SaveCheckpoint(syncState, ckpt, "error", "upsert_error",
                                           stats.records_upserted)
            /\ raised' = "upsert_error"
            /\ stats' = [stats EXCEPT !.errors = @ + 1,
                                      !.last_error = "upsert_error"]
    /\ pc' = "failed"
    /\ hist' = [hist EXCEPT !.upsertRaised = TRUE, !.upsertErrs = @ + 1,
                            !.clean = FALSE]
    /\ UNCHANGED <<offPipeline, adapter, numPages, runsLeft, latest, table, max_batches,
                   dry_run, resumed, checkpoint, new_checkpoint, records,
                   transformed, batch_count>>

\* PeriodicSaveDue with the period doubled.
PeriodicSaveLate(n, dry) == n % (2 * CheckpointEvery) = 0 /\ ~dry

\* "if batch_count % 10 == 0 and not dry_run": is the checkpoint saved after
\* the n-th batch
PeriodicSaveDue(n, dry) == n % CheckpointEvery = 0 /\ ~dry

\* "checkpoint = new_checkpoint; batch_count += 1" and the periodic save.
Advance ==
    /\ pc = "advance"
    /\ checkpoint' = new_checkpoint
    /\ batch_count' = batch_count + 1
    /\ IF PeriodicSaveDue(batch_count + 1, dry_run)
       THEN IF SaveRaises(new_checkpoint)
            THEN /\ syncState' = syncState
                 /\ raised' = "attribute_error"
                 /\ stats' = [stats EXCEPT !.batches_processed = batch_count + 1,
                                           !.last_error = "attribute_error"]
                 /\ pc' = "failed"
                 /\ hist' = [hist EXCEPT !.clean = FALSE,
                                         !.passed = @ \cup {new_checkpoint}]
            ELSE /\ syncState' = SaveCheckpoint(syncState, new_checkpoint, "running",
                                                "none", stats.records_upserted)
                 /\ raised' = raised
                 /\ stats' = [stats EXCEPT !.batches_processed = batch_count + 1]
                 /\ pc' = "fetch"
                 /\ hist' = [hist EXCEPT !.passed = @ \cup {new_checkpoint}]
       ELSE /\ syncState' = syncState
            /\ raised' = raised
            /\ stats' = [stats EXCEPT !.batches_processed = batch_count + 1]
            /\ pc' = "fetch"
            /\ hist' = [hist EXCEPT !.passed = @ \cup {new_checkpoint}]
    /\ UNCHANGED <<offPipeline, adapter, numPages, runsLeft, faults, latest, table,
                   max_batches, dry_run, resumed, new_checkpoint, records,
                   transformed>>

\* After the loop: the final save with status "completed", then return.
Finish ==
    /\ pc = "final"
    /\ IF dry_run
       THEN /\ syncState' = syncState
            /\ raised' = raised
            /\ stats' = stats
            /\ pc' = "done"
            /\ hist' = hist
       ELSE IF SaveRaises(checkpoint)
       THEN /\ syncState' = syncState
            /\ raised' = "attribute_error"
            /\ stats' = [stats EXCEPT !.last_error = "attribute_error"]
            /\ pc' = "failed"
            /\ hist' = [hist EXCEPT !.clean = FALSE]
       ELSE /\ syncState' = SaveCheckpoint(syncState, checkpoint, "completed",
                                           "none", stats.records_upserted)
            /\ raised' = raised
            /\ stats' = stats
            /\ pc' = "done"
            /\ hist' = [hist EXCEPT !.cumUpserted = @ + stats.records_upserted]
    /\ UNCHANGED <<offPipeline, adapter, numPages, runsLeft, faults, latest, table,
                   max_batches, dry_run, resumed, checkpoint, new_checkpoint,
                   records, transformed, batch_count>>

\* The process is killed between two steps of a run: what is in memory is
\* gone, the database stays.
Kill ==
    /\ pc \in Running
    /\ faults < MaxFaults
    /\ faults' = faults + 1
    /\ pc' = "killed"
    /\ hist' = [hist EXCEPT !.clean = FALSE]
    /\ UNCHANGED <<offPipeline, adapter, numPages, runsLeft, latest, syncState, table,
                   max_batches, dry_run, resumed, checkpoint, new_checkpoint,
                   records, transformed, batch_count, stats, raised>>

Next ==
    \/ StartRun
    \/ LimitReached
    \/ FetchOk
    \/ FetchRaises
    \/ TransformBatch
    \/ UpsertBatch
    \/ UpsertRaises
    \/ Advance
    \/ Finish
    \/ Kill

\* Every adapter over a short source.
Spec == Init /\ [][Next]_vars

\* The generic pipeline over a source longer than the checkpoint period.
SpecLong == InitLong /\ [][Next]_vars

\* ==================================== cost ledger and budget circuit breaker

\* The pipeline stands still while the other subsystems are exercised.
PipelineIdle ==
    /\ adapter = "generic"
    /\ numPages = MaxPages
    /\ runsLeft = 0
    /\ InitCommon

\* What a step of the cost subsystem leaves alone.
offCost ==
    <<adapter, numPages, runsLeft, faults, latest, syncState, table, pc,
      max_batches, dry_run, resumed, checkpoint, new_checkpoint,
      records, transformed, batch_count, stats, raised, hist, bucketVars,
      restVars>>

\* float(total_cost / self.monthly_budget) if self.monthly_budget else 0, in
\* percent.
PercentUsed(total, budget) ==
    IF budget # 0 THEN (total * 100) \div budget ELSE 0

\* The thresholds of get_status read as strict bounds.
StateForStrict(pct) ==
    IF pct > HaltThreshold THEN "HALTED"
    ELSE IF pct > WarningThreshold THEN "WARNING"
    ELSE "NORMAL"

\* get_status: the state for a budget_percent_used.
StateFor(pct) ==
    IF pct >= HaltThreshold THEN "HALTED"
    ELSE IF pct >= WarningThreshold THEN "WARNING"
    ELSE "NORMAL"

\* The callback loop of _update_state left at the first callback that raises.
RECURSIVE NotifyUntilError(_, _, _, _, _)
NotifyUntilError(i, n, old, new, raising) ==
    IF i > n THEN <<>>
    ELSE IF i \in raising THEN << <<i, old, new>> >>
    ELSE << <<i, old, new>> >> \o NotifyUntilError(i + 1, n, old, new, raising)

\* The callback loop of _update_state: callbacks i..n are called in order of
\* registration with (old, new); one that raises (raising) is logged and the
\* loop goes on.
RECURSIVE NotifyAll(_, _, _, _, _)
NotifyAll(i, n, old, new, raising) ==
    IF i > n THEN <<>>
    ELSE << <<i, old, new>> >> \o NotifyAll(i + 1, n, old, new, raising)

\* _update_state(new_state)
UpdateState(br, new_state, raising) ==
    IF new_state # br.state
    THEN [br EXCEPT !.prev = br.state,
                    !.state = new_state,
                    !.notified = NotifyAll(1, br.callbacks, br.state, new_state, raising)]
    ELSE [br EXCEPT !.prev = br.state, !.notified = <<>>]

\* BudgetStatus(...) of get_status
BudgetStatus(state, total, pct) ==
    [state |-> state, current_spend |-> total, budget_limit |-> MonthlyBudget,
     percent_used |-> pct, remaining |-> MonthlyBudget - total]

\* get_status that keeps a breaker halted once it has halted.
GetStatusSticky(total, br, raising) ==
    LET pct == PercentUsed(total, MonthlyBudget)
        state == IF br.state = "HALTED" THEN "HALTED" ELSE StateFor(pct)
    IN  [status |-> BudgetStatus(state, total, pct),
         breaker |-> UpdateState(br, state, raising)]

\* get_status, from the monthly summary on: the state for the total read,
\* the cached state updated, the status returned.
GetStatus(total, br, raising) ==
    LET pct == PercentUsed(total, MonthlyBudget)
        state == StateFor(pct)
    IN  [status |-> BudgetStatus(state, total, pct),
         breaker |-> UpdateState(br, state, raising)]

\* check_budget that lets every call pass.
CheckBudgetPasses(status) == FALSE

\* check_budget that raises from the warning threshold on.
CheckBudgetRaisesEarly(status) == status.state \in {"WARNING", "HALTED"}

\* check_budget: if status.state == BudgetState.HALTED: raise
CheckBudgetRaises(status) == status.state = "HALTED"

\* can_spend that allows a projection that reaches the halt threshold.
CanSpendUpTo(current_spend, estimated_cost, monthly_budget) ==
    (current_spend + estimated_cost) * 100 <= HaltThreshold * monthly_budget

\* can_spend: projected / monthly_budget < halt_threshold, for a budget
\* above 0.
CanSpend(current_spend, estimated_cost, monthly_budget) ==
    (current_spend + estimated_cost) * 100 < HaltThreshold * monthly_budget

\* BudgetExceededError(current_spend, budget_limit, percent_used)
BudgetExceededError(status) ==
    [kind |-> "BudgetExceededError", current_spend |-> status.current_spend,
     budget_limit |-> status.budget_limit, percent_used |-> status.percent_used]

\* Any other exception.
OtherError(kind) == [NoError EXCEPT !.kind = kind]

\* ------------------------------------------------------- embedding service

\* _compute_hash: the first 16 hex digits of the SHA-256 of the text; distinct
\* texts of the model have distinct hashes.
ComputeHash(t) == <<"sha256_16", t>>

\* The tokens the provider counts for a text.
TokenCount(t) == IF t = "a" THEN 1 ELSE 2

RECURSIVE TotalTokens(_)
TotalTokens(ts) ==
    IF ts = <<>> THEN 0 ELSE TokenCount(Head(ts)) + TotalTokens(Tail(ts))

\* log_embedding_cost that writes no entry.
LogEmbeddingCostDropped(log, token_count) == log

\* log_embedding_cost: one row of cost_log with cost = token_count * rate.
LogEmbeddingCost(log, token_count) ==
    [log EXCEPT !.total = @ + token_count * VoyageRate, !.count = @ + 1]

\* The first loop of embed_texts: the texts with no stored embedding.
TextsToEmbed(ts, stored) ==
    SelectSeq(ts, LAMBDA t : ComputeHash(t) \notin stored)

\* __aexit__ returns False: the exception of the body is not suppressed.
GuardExit(outcome) == IF outcome = "error" THEN OtherError("body_error") ELSE NoError

\* The methods of the breaker, and those of the embedding service.
Breaker == {"get_status", "check_budget", "guard"}
Embedding == {"embed_texts", "embed_and_store", "embed_query"}

\* The spend of the month before the model starts: 42.50 of 50.00.
InitialSpend == {17}

InitCost ==
    /\ PipelineIdle
    /\ cost_log \in {[total |-> t, count |-> 0, months |-> 0, spends |-> 0] :
                        t \in InitialSpend}
    /\ embeddings = {}
    /\ breaker = [b \in Breakers |-> NewBreaker]
    /\ caller = [c \in Callers |-> IdleCaller]
    /\ sent = [t \in Texts |-> 0]
    /\ BucketIdle
    /\ RestIdle

\* A task calls one of the methods ops on one of the breakers bs, or on the
\* embedding service that holds it.
StartOp(c, ops, bs) ==
    /\ caller[c].pc \in {"idle", "returned", "raised"}
    /\ \E op \in ops, b \in bs, ts \in TextLists :
        /\ op \in Embedding => cost_log.count < MaxEntries
        /\ op \notin Embedding => ts = <<"a">>
        /\ op = "embed_query" => Len(ts) = 1
        /\ caller' = [caller EXCEPT ![c] =
              [IdleCaller EXCEPT !.pc = "read", !.op = op, !.b = b,
                                 !.texts = IF op \in Embedding THEN ts ELSE <<>>]]
    /\ UNCHANGED <<offCost, cost_log, embeddings, breaker, sent>>

\* get_monthly_summary: the query sums the cost_log rows of the month.
ReadSummary(c) ==
    /\ caller[c].pc = "read"
    /\ caller' = [caller EXCEPT ![c].read = cost_log.total, ![c].pc = "compute"]
    /\ UNCHANGED <<offCost, cost_log, embeddings, breaker, sent>>

\* Where an operation goes once its budget check has passed.
AfterCheck(op) ==
    CASE op = "guard" -> "body"
      [] op \in {"embed_texts", "embed_and_store"} -> "dedup"
      [] op = "embed_query" -> "provider"
      [] OTHER -> "returned"

\* The summary arrives: get_status computes the state and updates the cached
\* one; check_budget (called by guard, budget_protected and embed_query)
\* raises or lets the operation go on.  The embedding methods drop the
\* status that check_budget returns.
ComputeStatus(c) ==
    /\ caller[c].pc = "compute"
    /\ LET b == caller[c].b IN
       \E raising \in SUBSET (1..breaker[b].callbacks) :
         LET r == GetStatus(caller[c].read, breaker[b], raising)
             halt == /\ caller[c].op \notin {"get_status", "can_spend"}
                     /\ CheckBudgetRaises(r.status)
         IN  /\ breaker' = [breaker EXCEPT ![b] = r.breaker]
             /\ caller' = [caller EXCEPT
                   ![c].read = IF caller[c].op \in Embedding THEN 0 ELSE @,
                   ![c].status = IF caller[c].op \in Embedding /\ ~halt
                                 THEN NoStatus ELSE r.status,
                   ![c].err = IF halt THEN BudgetExceededError(r.status) ELSE NoError,
                   ![c].answer =
                       IF caller[c].op = "can_spend"
                       THEN CanSpend(r.status.current_spend,
                                     caller[c].estimated_cost, MonthlyBudget)
                       ELSE @,
                   ![c].todo = IF caller[c].op = "embed_query" /\ ~halt
                               THEN caller[c].texts ELSE <<>>,
                   ![c].pc = IF halt THEN "raised" ELSE AfterCheck(caller[c].op)]
    /\ UNCHANGED <<offCost, cost_log, embeddings, sent>>

\* The body of "async with breaker.guard()" runs and ends or raises; then
\* __aexit__.
GuardBody(c) ==
    /\ caller[c].pc = "body"
    /\ \E outcome \in {"ok", "error"} :
        caller' = [caller EXCEPT
            ![c].body = outcome,
            ![c].err = GuardExit(outcome),
            ![c].pc = IF GuardExit(outcome) = NoError THEN "returned" ELSE "raised"]
    /\ UNCHANGED <<offCost, cost_log, embeddings, breaker, sent>>

\* embed_texts looks every text up by its content hash; with nothing left to
\* embed it returns without a provider call.
CheckExisting(c) ==
    /\ caller[c].pc = "dedup"
    /\ LET todo == TextsToEmbed(caller[c].texts, embeddings) IN
       caller' = [caller EXCEPT
           ![c].todo = todo,
           ![c].pc = IF todo # <<>> THEN "provider"
                     ELSE IF caller[c].op = "embed_and_store" THEN "store"
                     ELSE "returned"]
    /\ UNCHANGED <<offCost, cost_log, embeddings, breaker, sent>>

\* The provider call of _call_voyage_api or embed_query returns the
\* embeddings and total_tokens.
ProviderCall(c) ==
    /\ caller[c].pc = "provider"
    /\ LET total_tokens == TotalTokens(caller[c].todo) IN
       caller' = [caller EXCEPT
           ![c].tokens = total_tokens,
           ![c].calls = @ + 1,
           ![c].used = @ + total_tokens,
           ![c].pc = "log"]
    /\ sent' = [t \in Texts |->
                  IF caller[c].op # "embed_query" /\ t \in Range(caller[c].todo)
                  THEN Min(sent[t] + 1, 2) ELSE sent[t]]
    /\ UNCHANGED <<offCost, cost_log, embeddings, breaker>>

\* The provider call raises (network, API error): nothing came back.
ProviderRaises(c) ==
    /\ caller[c].pc = "provider"
    /\ caller' = [caller EXCEPT ![c].err = OtherError("provider_error"),
                                ![c].pc = "raised"]
    /\ UNCHANGED <<offCost, cost_log, embeddings, breaker, sent>>

\* await self.cost_tracker.log_embedding_cost(total_tokens, model)
LogCost(c) ==
    /\ caller[c].pc = "log"
    /\ LET after == LogEmbeddingCost(cost_log, caller[c].tokens) IN
       /\ cost_log' = after
       /\ caller' = [caller EXCEPT
             ![c].entries = @ + (after.count - cost_log.count),
             ![c].billed = @ + (after.total - cost_log.total),
             ![c].pc = IF caller[c].op = "embed_and_store" THEN "store"
                       ELSE "returned"]
    /\ UNCHANGED <<offCost, embeddings, breaker, sent>>

\* embed_and_store writes one row per chunk with its content hash and
\* commits.
StoreEmbeddings(c) ==
    /\ caller[c].pc = "store"
    /\ embeddings' = embeddings \cup {ComputeHash(t) : t \in Range(caller[c].texts)}
    /\ caller' = [caller EXCEPT ![c].pc = "returned"]
    /\ UNCHANGED <<offCost, cost_log, breaker, sent>>

\* A new month begins: get_monthly_summary sums the rows of the current
\* month only.
MonthRollover ==
    /\ cost_log.months < MaxMonths
    /\ cost_log' = [cost_log EXCEPT !.total = 0, !.months = @ + 1]
    /\ UNCHANGED <<offCost, embeddings, breaker, caller, sent>>

\* on_state_change(callback)
RegisterCallback(b) ==
    /\ breaker[b].callbacks < MaxCallbacks
    /\ breaker' = [breaker EXCEPT ![b].callbacks = @ + 1]
    /\ UNCHANGED <<offCost, cost_log, embeddings, caller, sent>>

\* Another service writes a ledger entry (log_cost, log_bigquery_cost).
OtherSpend ==
    /\ cost_log.spends < MaxSpends
    /\ cost_log' = [cost_log EXCEPT !.total = @ + 1, !.count = @ + 1,
                                    !.spends = @ + 1]
    /\ UNCHANGED <<offCost, embeddings, breaker, caller, sent>>

\* The costs can_spend is asked about: positive, zero and negative.
Estimates == (0 - MaxEstimate)..MaxEstimate

\* A task calls can_spend(estimated_cost) on the first breaker.
CanSpendStart(c) ==
    /\ caller[c].pc \in {"idle", "returned", "raised"}
    /\ \E estimated_cost \in Estimates :
         caller' = [caller EXCEPT ![c] =
            [IdleCaller EXCEPT !.pc = "read", !.op = "can_spend",
                               !.estimated_cost = estimated_cost]]
    /\ UNCHANGED <<offCost, cost_log, embeddings, breaker, sent>>

\* Tasks asking the breakers what can be spent while the ledger moves.
NextCanSpend ==
    \/ \E c \in Callers : CanSpendStart(c)
    \/ \E c \in Callers : ReadSummary(c)
    \/ \E c \in Callers : ComputeStatus(c)
    \/ OtherSpend
    \/ MonthRollover

SpecCanSpend == InitCost /\ [][NextCanSpend]_vars

\* Tasks polling and guarding with the breakers while the ledger moves.
NextBreaker ==
    \/ \E c \in Callers : StartOp(c, Breaker, Breakers)
    \/ \E c \in Callers : ReadSummary(c)
    \/ \E c \in Callers : ComputeStatus(c)
    \/ \E c \in Callers : GuardBody(c)
    \/ OtherSpend
    \/ MonthRollover

SpecBreaker == InitCost /\ [][NextBreaker]_vars

\* One task polling a breaker that has callbacks registered.
NextCallbacks ==
    \/ StartOp(1, Breaker, {1})
    \/ ReadSummary(1)
    \/ ComputeStatus(1)
    \/ GuardBody(1)
    \/ OtherSpend
    \/ MonthRollover
    \/ RegisterCallback(1)

SpecCallbacks == InitCost /\ [][NextCallbacks]_vars

\* Tasks embedding through one service, its breaker and the ledger.
NextEmbed ==
    \/ \E c \in Callers : StartOp(c, Embedding, {1})
    \/ \E c \in Callers : ReadSummary(c)
    \/ \E c \in Callers : ComputeStatus(c)
    \/ \E c \in Callers : CheckExisting(c)
    \/ \E c \in Callers : ProviderCall(c)
    \/ \E c \in Callers : ProviderRaises(c)
    \/ \E c \in Callers : LogCost(c)
    \/ \E c \in Callers : StoreEmbeddings(c)

SpecEmbed == InitCost /\ [][NextEmbed]_vars

\* ------------------------------------------------------------ token bucket

\* What a step of the rate limiter leaves alone.
offBucket ==
    <<adapter, numPages, runsLeft, faults, latest, syncState, table, pc,
      max_batches, dry_run, resumed, checkpoint, new_checkpoint,
      records, transformed, batch_count, stats, raised, hist, costVars,
      restVars>>

\* The amounts a call asks for; some exceed the burst.
Amounts == 1..MaxAmount

\* The time since last_refill is followed up to the point from which a
\* refill fills the bucket whatever it holds.
ElapsedCap == ((MaxAmount + 1) * TestConfig.period) \div TestConfig.rate

\* _refill: tokens = min(burst, tokens + elapsed * (rate / period)),
\* last_refill = now.
Refill(b, config) ==
    LET refill_amount == (b.elapsed * config.rate) \div config.period
    IN  [tokens |-> Min(config.burst, b.tokens + refill_amount), elapsed |-> 0]

\* A wait that is no wait.
WaitTimeNone(deficit, config) == 0

\* wait_time = deficit * (period / rate)
WaitTime(deficit, config) == (deficit * config.period) \div config.rate

\* A deduction that is lost.
DeductLost(b, tokens) == b

\* A deduction made twice.
DeductTwice(b, tokens) == [b EXCEPT !.tokens = @ - 2 * tokens]

\* self.tokens -= tokens
Deduct(b, tokens) == [b EXCEPT !.tokens = @ - tokens]

\* The allowance burst + rate * t / period less the tokens granted so far is
\* followed, in tokens times period, up to this much.
SlackCap == (TestConfig.burst + MaxAmount) * TestConfig.period

\* The tokens the bucket would hold after a refill now.
Available(b) == Refill(b, TestConfig).tokens

\* The history after a call has been answered: what was granted in this
\* instant, and the try_acquire(1) calls answered on the new bucket with no
\* time elapsed.
Answered(h, op, tokens, granted, immediately) ==
    LET counted == h.fresh /\ h.pure /\ op = "try_acquire" /\ tokens = 1
                   /\ h.tries < MaxTries
    IN  [h EXCEPT
           !.immediate = IF granted /\ immediately THEN @ + tokens ELSE @,
           !.deducted = IF granted THEN @ + tokens ELSE @,
           !.slack = IF h.metered /\ granted
                     THEN @ - tokens * TestConfig.period ELSE @,
           !.pure = counted,
           !.tries = IF counted THEN @ + 1 ELSE @,
           !.ok = IF counted /\ granted THEN @ + 1 ELSE @]

\* The call is over: its locals are gone, its result is with the task.
Returned(result) == [IdleTask EXCEPT !.pc = "returned", !.result = result]

InitBucket ==
    /\ PipelineIdle
    /\ CostIdle
    /\ BucketIdle
    /\ RestIdle

\* A task calls acquire(tokens) or try_acquire(tokens) and asks for the lock.
Call(c, ops) ==
    /\ task[c].pc \in {"idle", "returned"}
    /\ \E op \in ops, tokens \in Amounts :
          task' = [task EXCEPT ![c] =
                     [IdleTask EXCEPT !.pc = "queued", !.op = op, !.tokens = tokens]]
    /\ lock' = Append(lock, c)
    /\ UNCHANGED <<offBucket, bucket, inst>>

\* The task gets the lock: refill; with enough tokens deduct and return 0.0
\* (acquire) or True (try_acquire); else try_acquire returns False and
\* acquire starts its sleep, the lock held.
Enter(c) ==
    /\ lock # <<>> /\ Head(lock) = c
    /\ task[c].pc = "queued"
    /\ LET refilled == Refill(bucket, TestConfig)
           tokens == task[c].tokens
           op == task[c].op
       IN  IF refilled.tokens >= tokens
           THEN /\ bucket' = Deduct(refilled, tokens)
                /\ task' = [task EXCEPT ![c] =
                               Returned(IF op = "acquire" THEN "0.0" ELSE "True")]
                /\ lock' = Tail(lock)
                /\ inst' = Answered(inst, op, tokens, TRUE, TRUE)
           ELSE IF op = "try_acquire"
           THEN /\ bucket' = refilled
                /\ task' = [task EXCEPT ![c] = Returned("False")]
                /\ lock' = Tail(lock)
                /\ inst' = Answered(inst, op, tokens, FALSE, TRUE)
           ELSE LET wait_time == WaitTime(tokens - refilled.tokens, TestConfig) IN
                /\ bucket' = refilled
                /\ task' = [task EXCEPT ![c].pc = "sleeping",
                                        ![c].wait_time = wait_time,
                                        ![c].sleep = wait_time]
                /\ lock' = lock
                /\ inst' = [inst EXCEPT !.pure = FALSE]
    /\ UNCHANGED offBucket

\* asyncio.sleep(wait_time) is over: refill, deduct, return wait_time and
\* release the lock.
Wake(c) ==
    /\ task[c].pc = "sleeping"
    /\ task[c].sleep = 0
    /\ bucket' = Deduct(Refill(bucket, TestConfig), task[c].tokens)
    /\ task' = [task EXCEPT ![c] = Returned("wait_time")]
    /\ lock' = Tail(lock)
    /\ inst' = Answered(inst, task[c].op, task[c].tokens, TRUE, FALSE)
    /\ UNCHANGED offBucket

\* time.monotonic() advances by one tick.
Tick ==
    /\ bucket' = [bucket EXCEPT !.elapsed = Min(@ + 1, ElapsedCap)]
    /\ task' = [c \in Tasks |->
                  [task[c] EXCEPT !.sleep = IF @ > 0 THEN @ - 1 ELSE 0]]
    /\ inst' = [inst EXCEPT !.avail = Available(bucket'), !.immediate = 0,
                            !.deducted = 0, !.fresh = FALSE,
                            !.slack = IF inst.metered
                                      THEN Min(@ + TestConfig.rate, SlackCap)
                                      ELSE @]
    /\ UNCHANGED <<offBucket, lock>>

\* The two ways to take tokens.
BucketOps == {"acquire", "try_acquire"}

NextBucket ==
    \/ \E c \in Tasks : Call(c, BucketOps)
    \/ \E c \in Tasks : Enter(c)
    \/ \E c \in Tasks : Wake(c)
    \/ Tick

\* Tasks sharing one bucket.
SpecBucket == InitBucket /\ [][NextBucket]_vars

\* The same bucket with the tokens it grants set against the allowance from
\* its creation on.
InitMetered ==
    /\ PipelineIdle
    /\ CostIdle
    /\ bucket = PostInit(TestConfig)
    /\ lock = <<>>
    /\ task = [c \in Tasks |-> IdleTask]
    /\ inst = [NewHistory EXCEPT !.pure = FALSE, !.metered = TRUE,
                                 !.slack = TestConfig.burst * TestConfig.period]
    /\ RestIdle

SpecMetered == InitMetered /\ [][NextBucket]_vars

\* The same with the event loop running every task that is ready and time
\* passing.
NextAcquire ==
    \/ \E c \in Tasks : Call(c, {"acquire"})
    \/ \E c \in Tasks : Enter(c)
    \/ \E c \in Tasks : Wake(c)
    \/ Tick

SpecBucketLive ==
    /\ InitBucket /\ [][NextAcquire]_vars
    /\ WF_vars(Tick)
    /\ \A c \in Tasks : WF_vars(Enter(c)) /\ WF_vars(Wake(c))

\* -------------------------------------------------------- outbound requests

\* The pipeline, the cost subsystem and the bucket.
offRest ==
    <<adapter, numPages, runsLeft, faults, latest, syncState, table, pc,
      max_batches, dry_run, resumed, checkpoint, new_checkpoint,
      records, transformed, batch_count, stats, raised, hist, costVars,
      bucketVars>>

\* What a step of a requesting task leaves alone.
offNet == <<offRest, chunker, searcher, resolver, thresholds, memory>>

InitNet ==
    /\ PipelineIdle
    /\ CostIdle
    /\ BucketIdle
    /\ RestIdle

\* A task calls a function that sends a request: the wrapper of rate_limited
\* runs first if the function is decorated, else its body.
CallSite(c) ==
    /\ net.client[c].pc \in {"idle", "done", "raised"}
    /\ \E site \in RequestSites :
          net' = [net EXCEPT !.client[c] =
                    [IdleClient EXCEPT
                       !.site = site,
                       !.pc = IF RateLimitedAs(site) # "none" THEN "wrapper"
                              ELSE "request"]]
    /\ UNCHANGED offNet

\* registry.acquire(limiter_name, tokens): get() creates the bucket of a
\* known name on first use and raises ValueError for an unknown one.
RegistryGet(c) ==
    /\ net.client[c].pc = "wrapper"
    /\ LET name == RateLimitedAs(net.client[c].site) IN
       IF name \in net.limiters \/ name \in DefaultRateLimits
       THEN net' = [net EXCEPT !.limiters = @ \cup {name},
                               !.client[c].pc = "acquire"]
       ELSE net' = [net EXCEPT !.client[c].pc = "raised"]
    /\ UNCHANGED offNet

\* The acquire on the named bucket returns.
AcquireReturns(c) ==
    /\ net.client[c].pc = "acquire"
    /\ net' = [net EXCEPT
                 !.client[c].acquired = RateLimitedAs(net.client[c].site),
                 !.client[c].pc = "request"]
    /\ UNCHANGED offNet

\* The body of the function sends its request.
SendRequest(c) ==
    /\ net.client[c].pc = "request"
    /\ net' = [net EXCEPT !.client[c].pc = "done"]
    /\ UNCHANGED offNet

NextNet ==
    \/ \E c \in Clients : CallSite(c)
    \/ \E c \in Clients : RegistryGet(c)
    \/ \E c \in Clients : AcquireReturns(c)
    \/ \E c \in Clients : SendRequest(c)

\* Tasks sending requests to the external services.
SpecNet == InitNet /\ [][NextNet]_vars

\* ----------------------------------------------------------------- chunking

\* What a step of a chunker leaves alone.
offChunker == <<offRest, net, searcher, resolver, thresholds, memory>>

Max(a, b) == IF a > b THEN a ELSE b

\* A bound of a Python slice of a list of n items: a negative one counts
\* from the end, and both are brought into 0..n.
SliceBound(i, n) == IF i < 0 THEN Max(i + n, 0) ELSE Min(i, n)

\* TextChunk of tokens[token_start:token_end]: the tokens after the first lo
\* up to the hi-th.
WindowChunk(index, token_start, token_end, total_tokens) ==
    LET lo == SliceBound(token_start, total_tokens)
        hi == SliceBound(token_end, total_tokens)
    IN  [index |-> index, lo |-> lo, hi |-> Max(hi, lo), token_count |-> Max(hi - lo, 0)]

\* TextChunk of the sentences joined: token_count = current_tokens.
SentenceChunk(index, current_tokens) ==
    [index |-> index, lo |-> 0, hi |-> 0, token_count |-> current_tokens]

\* yield: the first MaxChunks chunks of a call are recorded.
Yield(chunks, chunk) ==
    IF Len(chunks) < MaxChunks THEN Append(chunks, chunk) ELSE chunks

\* chunk_index += 1, followed as far as the chunks are recorded.
NextIndex(chunk_index) == Min(chunk_index + 1, MaxChunks)

\* token_start is followed down to where every slice is empty.
StartFloor(token_start, total_tokens) == Max(token_start, 0 - 2 * total_tokens)

\* current_sentences[-overlap_sentences:]
KeepOverlap(current_sentences, overlap_sentences) ==
    LET n == Len(current_sentences) IN
    IF overlap_sentences = 0 \/ overlap_sentences >= n THEN current_sentences
    ELSE SubSeq(current_sentences, n - overlap_sentences + 1, n)

\* sum(self.count_tokens(s) for s in current_sentences); a sentence is given
\* by its token count.
RECURSIVE SumTokens(_)
SumTokens(ss) == IF ss = <<>> THEN 0 ELSE Head(ss) + SumTokens(Tail(ss))

\* The texts of up to MaxSentences sentences of up to MaxWindow + 1 tokens.
SentenceTexts ==
    UNION {[1..n -> 1..(MaxWindow + 1)] : n \in 1..MaxSentences}

\* TextChunker(max_tokens, overlap_tokens).chunk_text(text) on a non-empty
\* text, or SentenceChunker(max_tokens, overlap_sentences).chunk_text(text).
InitChunk ==
    /\ PipelineIdle
    /\ CostIdle
    /\ BucketIdle
    /\ net = NetIdle
    /\ searcher = SearcherIdle
    /\ resolver = ResolverIdle
    /\ thresholds = BudgetIdle
    /\ memory = <<>>
    /\ \/ \E m \in 1..MaxWindow, o \in 0..(MaxWindow + 1), n \in 1..TextLen :
            chunker = [ChunkerIdle EXCEPT !.pc = "call", !.kind = "token",
                          !.max_tokens = m, !.overlap_tokens = o,
                          !.total_tokens = n]
       \/ \E m \in 2..MaxWindow, o \in 0..2, ss \in SentenceTexts :
            chunker = [ChunkerIdle EXCEPT !.pc = "call", !.kind = "sentence",
                          !.max_tokens = m, !.overlap_sentences = o,
                          !.sentences = ss]

\* TextChunker.chunk_text up to its loop: a text that fits is one chunk.
TokenStart ==
    /\ chunker.pc = "call" /\ chunker.kind = "token"
    /\ IF chunker.total_tokens <= chunker.max_tokens
       THEN chunker' = [chunker EXCEPT
               !.chunks = Yield(@, WindowChunk(0, 0, chunker.total_tokens,
                                               chunker.total_tokens)),
               !.pc = "done"]
       ELSE chunker' = [chunker EXCEPT !.pc = "loop", !.token_start = 0,
                                       !.chunk_index = 0]
    /\ UNCHANGED offChunker

\* Where the loop of TextChunker goes when it is left: the call is over, or
\* the sentence that was too long is done with.
AfterLoop(kind) == IF kind = "sentence" THEN "sentences" ELSE "done"

\* One round of the while loop of TextChunker.chunk_text, also when
\* SentenceChunker runs it on a sentence.
TokenLoop ==
    /\ chunker.pc = "loop"
    /\ IF chunker.token_start < chunker.total_tokens
       THEN LET token_end == Min(chunker.token_start + chunker.max_tokens,
                                 chunker.total_tokens)
                token_start == token_end - chunker.overlap_tokens
            IN  chunker' = [chunker EXCEPT
                   !.chunks = Yield(@, WindowChunk(chunker.chunk_index,
                                                   chunker.token_start, token_end,
                                                   chunker.total_tokens)),
                   !.token_start = StartFloor(token_start, chunker.total_tokens),
                   !.chunk_index = NextIndex(@),
                   !.rounds = 1 - @,
                   !.pc = IF token_start >= token_end
                          THEN AfterLoop(chunker.kind) ELSE "loop"]
       ELSE chunker' = [chunker EXCEPT !.pc = AfterLoop(chunker.kind)]
    /\ UNCHANGED offChunker

\* SentenceChunker.chunk_text up to its loop.
SentenceStart ==
    /\ chunker.pc = "call" /\ chunker.kind = "sentence"
    /\ chunker' = [chunker EXCEPT !.pc = "sentences", !.next = 1]
    /\ UNCHANGED offChunker

\* One round of the for loop of SentenceChunker.chunk_text, and the final
\* chunk after it.
SentenceLoop ==
    /\ chunker.pc = "sentences"
    /\ IF chunker.next > Len(chunker.sentences)
       THEN chunker' = [chunker EXCEPT
               !.chunks = IF chunker.current_sentences # <<>>
                          THEN Yield(@, SentenceChunk(chunker.chunk_index,
                                                      chunker.current_tokens))
                          ELSE @,
               !.pc = "done"]
       ELSE
       LET sentence_tokens == chunker.sentences[chunker.next]
           long == sentence_tokens > chunker.max_tokens
           emit == /\ chunker.current_sentences # <<>>
                   /\ \/ long
                      \/ chunker.current_tokens + sentence_tokens > chunker.max_tokens
           kept == IF emit
                   THEN KeepOverlap(chunker.current_sentences, chunker.overlap_sentences)
                   ELSE chunker.current_sentences
           kept_tokens == IF emit THEN SumTokens(kept) ELSE chunker.current_tokens
       IN  chunker' = [chunker EXCEPT
              !.chunks = IF emit
                         THEN Yield(@, SentenceChunk(chunker.chunk_index,
                                                     chunker.current_tokens))
                         ELSE @,
              !.chunk_index = IF emit THEN NextIndex(@) ELSE @,
              !.current_sentences = IF long THEN kept
                                    ELSE Append(kept, sentence_tokens),
              !.current_tokens = IF long THEN kept_tokens
                                 ELSE kept_tokens + sentence_tokens,
              !.next = @ + 1,
              !.pc = IF long THEN "loop" ELSE "sentences",
              !.total_tokens = IF long THEN sentence_tokens ELSE @,
              !.overlap_tokens = IF long THEN FallbackOverlap ELSE @,
              !.token_start = 0]
    /\ UNCHANGED offChunker

NextChunk ==
    \/ TokenStart
    \/ TokenLoop
    \/ SentenceStart
    \/ SentenceLoop

\* A chunker whose chunks are taken as long as it yields them.
SpecChunk == InitChunk /\ [][NextChunk]_vars /\ WF_vars(NextChunk)

\* ------------------------------------------------------------------- search

\* What a search request leaves alone.
offSearch == <<offRest, net, chunker, resolver, thresholds, memory>>

Queries == {"ice contract", "detention"}
SearchTypes == {"vector", "keyword", "hybrid", "fuzzy"}
Limits == {1, 2, NumRows}

\* The order in which the database returns the rows of integration.embeddings
\* for a query: no row twice.  Every order of up to MaxIds rows, and two
\* orders of NumRows rows.
Rankings ==
    {r \in UNION {[1..n -> 1..MaxIds] : n \in 0..MaxIds} :
        \A i, j \in DOMAIN r : i # j => r[i] # r[j]}
    \cup {[i \in 1..NumRows |-> i], [i \in 1..NumRows |-> NumRows + 1 - i]}

\* A score is a fraction num/den with den > 0.
Zero == [num |-> 0, den |-> 1]
Plus(a, b) == [num |-> a.num * b.den + b.num * a.den, den |-> a.den * b.den]
Times(a, tenths) == [num |-> a.num * tenths, den |-> a.den]
Greater(a, b) == a.num * b.den > b.num * a.den

\* The similarity the database reports for the row at a rank of its order.
Similarity(rank) == [num |-> 1, den |-> rank]

\* SELECT ... ORDER BY ... LIMIT :limit, as a list of SearchResult.
DbSearch(ranking, limit) ==
    [rank \in 1..Min(limit, Len(ranking)) |->
        [id |-> ranking[rank], score |-> Similarity(rank)]]

\* A rank counted from 0.
RrfScoreZeroBased(rank) == [num |-> 1, den |-> RRF_K + rank - 1]

\* _rrf_score
RrfScore(rank) == [num |-> 1, den |-> RRF_K + rank]

\* The dict scores: its keys in insertion order, and its items.
NoScores == [order |-> <<>>, item |-> <<>>]

\* for rank, result in enumerate(vector_results, 1)
RECURSIVE ProcessVector(_, _, _)
ProcessVector(scores, vector_results, rank) ==
    IF rank > Len(vector_results) THEN scores
    ELSE LET result == vector_results[rank]
             rrf == Times(RrfScore(rank), VectorWeight)
             next ==
                IF result.id \notin DOMAIN scores.item
                THEN [order |-> Append(scores.order, result.id),
                      item |-> scores.item @@
                               (result.id :> [result |-> result,
                                              vector_rrf |-> rrf,
                                              keyword_rrf |-> Zero])]
                ELSE [scores EXCEPT !.item[result.id].vector_rrf = rrf]
         IN ProcessVector(next, vector_results, rank + 1)

\* for rank, result in enumerate(keyword_results, 1)
RECURSIVE ProcessKeyword(_, _, _)
ProcessKeyword(scores, keyword_results, rank) ==
    IF rank > Len(keyword_results) THEN scores
    ELSE LET result == keyword_results[rank]
             rrf == Times(RrfScore(rank), KeywordWeight)
             next ==
                IF result.id \notin DOMAIN scores.item
                THEN [order |-> Append(scores.order, result.id),
                      item |-> scores.item @@
                               (result.id :> [result |-> result,
                                              vector_rrf |-> Zero,
                                              keyword_rrf |-> rrf])]
                ELSE [scores EXCEPT !.item[result.id].keyword_rrf = rrf]
         IN ProcessKeyword(next, keyword_results, rank + 1)

\* for item in scores.values(): result.score = vector_rrf + keyword_rrf
FinalResults(scores) ==
    [i \in 1..Len(scores.order) |->
        LET item == scores.item[scores.order[i]]
        IN [item.result EXCEPT
              !.score = Plus(item.vector_rrf, item.keyword_rrf)]]

\* list.sort(key=score, reverse=True): a stable sort, equal scores keep
\* their order.
RECURSIVE InsertByScore(_, _)
InsertByScore(sorted, x) ==
    IF sorted = <<>> THEN <<x>>
    ELSE IF Greater(x.score, Head(sorted).score) THEN <<x>> \o sorted
    ELSE <<Head(sorted)>> \o InsertByScore(Tail(sorted), x)

RECURSIVE SortByScore(_)
SortByScore(results) ==
    IF results = <<>> THEN <<>>
    ELSE InsertByScore(SortByScore(SubSeq(results, 1, Len(results) - 1)),
                       results[Len(results)])

\* hybrid_search, given what its two searches returned.
HybridResponse(query, limit, vector_results, keyword_results) ==
    LET scores == ProcessKeyword(ProcessVector(NoScores, vector_results, 1),
                                 keyword_results, 1)
        final_results == SortByScore(FinalResults(scores))
        cut == SubSeq(final_results, 1, Min(limit, Len(final_results)))
    IN [query |-> query, results |-> cut, total_count |-> Len(cut),
        search_type |-> "hybrid"]

\* search, for the types that run one search only.
PlainResponse(query, search_type, results) ==
    [query |-> query, results |-> results, total_count |-> Len(results),
     search_type |-> search_type]

\* Nothing is written to integration.search_log.
LogSearchSkipped(search_log, response) == search_log

\* log_search: one row of integration.search_log.
LogSearch(search_log, response) ==
    Append(search_log,
           [query |-> response.query,
            search_type |-> response.search_type,
            result_count |-> response.total_count,
            top_result_ids |->
                [i \in 1..Min(TopIds, Len(response.results)) |->
                    response.results[i].id]])

\* The command `iety search`: _search calls search and then log_search.
\* embed_query may raise, and then the command ends with the exception.
SearchCmd ==
    /\ searcher.pc = "idle"
    /\ Len(searcher.search_log) < MaxSearches
    /\ \E query \in Queries, limit \in Limits, search_type \in SearchTypes,
          vranking \in Rankings, kranking \in Rankings, embedded \in BOOLEAN :
         LET request == [searcher EXCEPT !.query = query, !.limit = limit,
                                         !.search_type = search_type,
                                         !.vector_results = <<>>,
                                         !.keyword_results = <<>>,
                                         !.response = NoResponse]
             served(vector_results, keyword_results, response) ==
                [request EXCEPT
                    !.pc = "done",
                    !.vector_results = vector_results,
                    !.keyword_results = keyword_results,
                    !.response = response,
                    !.served = @ + 1,
                    !.search_log = LogSearch(@, response)]
         IN IF search_type # "keyword" /\ ~embedded
            THEN searcher' = [request EXCEPT !.pc = "raised"]
            ELSE IF search_type = "vector"
            THEN LET results == DbSearch(vranking, limit)
                 IN searcher' = served(results, <<>>,
                                   PlainResponse(query, search_type, results))
            ELSE IF search_type = "keyword"
            THEN LET results == DbSearch(kranking, limit)
                 IN searcher' = served(<<>>, results,
                                   PlainResponse(query, search_type, results))
            ELSE LET vector_results == DbSearch(vranking, limit * 2)
                     keyword_results == DbSearch(kranking, limit * 2)
                 IN searcher' = served(vector_results, keyword_results,
                                   HybridResponse(query, limit, vector_results,
                                                  keyword_results))
    /\ UNCHANGED offSearch

InitSearch ==
    /\ PipelineIdle
    /\ CostIdle
    /\ BucketIdle
    /\ RestIdle

\* The command ends: its HybridSearch is gone, search_log stays.
SearchExit ==
    /\ searcher.pc \in {"done", "raised"}
    /\ searcher' = [SearcherIdle EXCEPT !.served = searcher.served,
                                        !.search_log = searcher.search_log]
    /\ UNCHANGED offSearch

NextSearch ==
    \/ SearchCmd
    \/ SearchExit

SpecSearch == InitSearch /\ [][NextSearch]_vars

\* -------------------------------------------------------- entity resolution

\* What a call of the resolver leaves alone.
offResolver == <<offRest, net, chunker, searcher, thresholds, memory>>

IdentifierTypes == {"uei", "duns"}
IdentifierValues == 1..MaxValues
CanonicalIds == 1..MaxEntities

\* None, or an empty identifier value.
None == 0

\* Names of recipients and entities, and similarity(a, b) of pg_trgm between
\* them in percent: a name is as similar to itself as can be.
Names == {"acme corp", "acme corp.", "acme co"}

NameSimilarity(a, b) ==
    IF a = b THEN 100
    ELSE IF {a, b} = {"acme corp", "acme corp."} THEN 90
    ELSE 70

\* The rows of entity_identifiers with this (identifier_type,
\* identifier_value).
Conflicting(identifiers, id_type, id_value) ==
    {r \in identifiers :
        r.identifier_type = id_type /\ r.identifier_value = id_value}

IdentifierRow(canonical_id, id_type, id_value) ==
    [canonical_id |-> canonical_id, identifier_type |-> id_type,
     identifier_value |-> id_value]

\* create_canonical_entity's INSERT ... ON CONFLICT (identifier_type,
\* identifier_value) DO UPDATE SET canonical_id = EXCLUDED.canonical_id.
InsertOrRepoint(identifiers, canonical_id, id_type, id_value) ==
    LET conflict == Conflicting(identifiers, id_type, id_value)
    IN IF conflict # {}
       THEN (identifiers \ conflict)
               \cup {[r EXCEPT !.canonical_id = canonical_id] : r \in conflict}
       ELSE identifiers
               \cup {IdentifierRow(canonical_id, id_type, id_value)}

\* link_entity's INSERT ... SELECT ... FROM canonical_entities ce WHERE ce.id =
\* :canonical_id ON CONFLICT ... DO UPDATE SET confidence: no row without the
\* entity, and a row that is there keeps its canonical_id.
InsertIfEntity(entities, identifiers, canonical_id, id_type, id_value) ==
    IF canonical_id \notin entities THEN identifiers
    ELSE IF Conflicting(identifiers, id_type, id_value) # {} THEN identifiers
    ELSE identifiers \cup {IdentifierRow(canonical_id, id_type, id_value)}

\* for id_type, id_value in identifiers.items(): if id_value: INSERT
RECURSIVE InsertAll(_, _, _, _)
InsertAll(identifiers, canonical_id, dict, types) ==
    IF types = {} THEN identifiers
    ELSE LET id_type == CHOOSE t \in types : TRUE
             next == IF dict[id_type] # None
                     THEN InsertOrRepoint(identifiers, canonical_id, id_type,
                                          dict[id_type])
                     ELSE identifiers
         IN InsertAll(next, canonical_id, dict, types \ {id_type})

\* create_canonical_entity, as the tables it leaves.
Created(r, name, dict) ==
    [r EXCEPT !.entities = @ \cup {r.next_id},
              !.names = Append(@, name),
              !.identifiers = InsertAll(@, r.next_id, dict, DOMAIN dict),
              !.next_id = @ + 1]

\* link_entity, as the tables it leaves.
Linked(r, canonical_id, id_type, id_value) ==
    [r EXCEPT !.identifiers =
        InsertIfEntity(r.entities, @, canonical_id, id_type, id_value)]

\* find_by_identifier: the entity joined to the identifier row, or None.
FindByIdentifier(r, id_type, id_value) ==
    LET found == {row \in Conflicting(r.identifiers, id_type, id_value) :
                     row.canonical_id \in r.entities}
    IN IF found = {} THEN None ELSE (CHOOSE row \in found : TRUE).canonical_id

CreateCanonicalEntity ==
    /\ resolver.next_id <= MaxEntities
    /\ \E name \in Names,
          dict \in [IdentifierTypes -> {None} \cup IdentifierValues] :
         resolver' = [Created(resolver, name, dict) EXCEPT
                        !.last = [op |-> "create", primary |-> resolver.next_id,
                                  secondary |-> None]]
    /\ UNCHANGED offResolver

LinkEntity ==
    /\ \E canonical_id \in CanonicalIds, id_type \in IdentifierTypes,
          id_value \in IdentifierValues :
         resolver' = [Linked(resolver, canonical_id, id_type, id_value) EXCEPT
                        !.last = [op |-> "link", primary |-> canonical_id,
                                  secondary |-> None]]
    /\ UNCHANGED offResolver

\* merge_entities: the identifiers of the secondary are given to the primary,
\* the aliases are merged, the secondary is deleted.
MergeEntities ==
    /\ \E primary_id \in CanonicalIds, secondary_id \in CanonicalIds :
         resolver' = [resolver EXCEPT
            !.identifiers =
                {IF r.canonical_id = secondary_id
                 THEN [r EXCEPT !.canonical_id = primary_id] ELSE r : r \in @},
            !.entities = @ \ {secondary_id},
            !.last = [op |-> "merge", primary |-> primary_id,
                      secondary |-> secondary_id]]
    /\ UNCHANGED offResolver

\* find_matches(name)[0]: the entity whose canonical_name is most similar to
\* the name, None if none reaches the threshold of the resolver.  Rows of
\* equal similarity come in the order of the table.
BestMatch(r, name) ==
    LET matches == {id \in r.entities :
                       NameSimilarity(r.names[id], name) >= DefaultThreshold}
    IN IF matches = {} THEN None
       ELSE CHOOSE id \in matches : \A other \in matches :
               \/ NameSimilarity(r.names[other], name)
                     < NameSimilarity(r.names[id], name)
               \/ /\ NameSimilarity(r.names[other], name)
                        = NameSimilarity(r.names[id], name)
                  /\ id <= other

\* The fuzzy match is taken at any similarity the resolver lists.
AutoLinkAny(similarity) == similarity >= DefaultThreshold

\* "matches[0].similarity >= 0.85"
AutoLink(similarity) == similarity >= AutoLinkThreshold

\* resolve_usaspending_recipient: by UEI, then by DUNS, then by the best fuzzy
\* match of the name, else a new entity.
Resolved(r, recipient_name, uei, duns) ==
    LET by_uei == IF uei # None THEN FindByIdentifier(r, "uei", uei) ELSE None
        by_duns == IF duns # None
                   THEN FindByIdentifier(r, "duns", duns) ELSE None
        match == BestMatch(r, recipient_name)
        link_uei(q, id) == IF uei # None THEN Linked(q, id, "uei", uei) ELSE q
        link_duns(q, id) ==
            IF duns # None THEN Linked(q, id, "duns", duns) ELSE q
        returns(q, id) ==
            [q EXCEPT !.last = [op |-> "resolve", primary |-> id,
                                secondary |-> None, name |-> recipient_name,
                                uei |-> uei, duns |-> duns]]
    IN IF by_uei # None THEN returns(r, by_uei)
       ELSE IF by_duns # None THEN returns(link_uei(r, by_duns), by_duns)
       ELSE IF match # None
               /\ AutoLink(NameSimilarity(r.names[match], recipient_name))
       THEN returns(link_duns(link_uei(r, match), match), match)
       ELSE returns(Created(r, recipient_name,
                            [t \in IdentifierTypes |->
                                IF t = "uei" THEN uei ELSE duns]),
                    r.next_id)

ResolveUsaspendingRecipient ==
    /\ \E recipient_name \in Names,
          uei \in {None} \cup IdentifierValues,
          duns \in {None} \cup IdentifierValues :
         /\ resolver' = Resolved(resolver, recipient_name, uei, duns)
         /\ resolver'.next_id <= MaxEntities + 1
    /\ UNCHANGED offResolver

InitResolver ==
    /\ PipelineIdle
    /\ CostIdle
    /\ BucketIdle
    /\ RestIdle

NextResolver ==
    \/ CreateCanonicalEntity
    \/ LinkEntity
    \/ MergeEntities
    \/ ResolveUsaspendingRecipient

SpecResolver == InitResolver /\ [][NextResolver]_vars

\* ------------------------------------------------------- budget thresholds

\* The thresholds a caller or the environment may give, in percent.
ThresholdValues == {0 - 10, 0, 50, 90, 95, 100, 150}

\* BudgetSettings.validate_threshold: "if not 0 < v <= 1: raise ValueError"
ValidThreshold(v) == 0 < v /\ v <= 100

\* Settings(): BUDGET_WARNING_THRESHOLD and BUDGET_HALT_THRESHOLD are read
\* and validated.
LoadBudgetSettings ==
    /\ \E w \in ThresholdValues, h \in ThresholdValues :
         thresholds' = [thresholds EXCEPT !.settings =
            IF ValidThreshold(w) /\ ValidThreshold(h)
            THEN "loaded" ELSE "ValueError"]
    /\ UNCHANGED <<offRest, net, chunker, searcher, resolver, memory>>

\* BudgetCircuitBreaker(session, monthly_budget, warning_threshold,
\* halt_threshold): the thresholds are stored as given.
NewBudgetBreaker ==
    /\ \E w \in ThresholdValues, h \in ThresholdValues :
         thresholds' = [thresholds EXCEPT !.built = TRUE, !.state = "NORMAL",
                                  !.percent_used = 0,
                                  !.warning_threshold = w,
                                  !.halt_threshold = h]
    /\ UNCHANGED <<offRest, net, chunker, searcher, resolver, memory>>

\* get_status of that breaker: the state for the spend of the month.
BudgetDecision ==
    /\ thresholds.built
    /\ \E percent_used \in {0, 50, 92, 100, 120} :
         thresholds' = [thresholds EXCEPT
            !.percent_used = percent_used,
            !.state = IF percent_used >= thresholds.halt_threshold
                      THEN "HALTED"
                      ELSE IF percent_used >= thresholds.warning_threshold
                      THEN "WARNING" ELSE "NORMAL"]
    /\ UNCHANGED <<offRest, net, chunker, searcher, resolver, memory>>

NextThresholds ==
    \/ LoadBudgetSettings
    \/ NewBudgetBreaker
    \/ BudgetDecision

SpecThresholds == InitResolver /\ [][NextThresholds]_vars

\* ------------------------------------------------------------ agent memory

\* The memory_types a caller may give: None or an empty list (<<>>), or up to
\* two values, one of them hostile.
MemoryTypeLists ==
    LET values == {"observation", "decision", "x') OR ('1'='1"}
    IN {<<>>} \cup {<<a>> : a \in values}
              \cup {<<a, b>> : a \in values, b \in values}

\* ", ".join(f"'{t}'" for t in memory_types), as the pieces of the string.
RECURSIVE TypeList(_)
TypeList(memory_types) ==
    IF memory_types = <<>> THEN <<>>
    ELSE <<"'", Head(memory_types), "'">>
            \o (IF Len(memory_types) > 1 THEN <<", ">> ELSE <<>>)
            \o TypeList(Tail(memory_types))

\* The text of the statement that search builds, as the pieces of its
\* f-string: type_condition is empty without memory_types.
SearchSql(memory_types) ==
    <<"SELECT ... FROM integration.agent_memory WHERE agent_type = :agent_type ...">>
    \o (IF memory_types # <<>>
        THEN <<"AND memory_type IN (">> \o TypeList(memory_types) \o <<")">>
        ELSE <<>>)
    \o <<"ORDER BY content_embedding <=> :query_embedding::vector LIMIT :limit">>

\* The names of the parameters that search binds.
SearchParams(memory_types) == {"agent_type", "query_embedding", "limit"}

\* MemoryStore.search(agent_type, query, embedding_service, limit,
\* memory_types): the statement handed to session.execute.
MemorySearch ==
    /\ Len(memory) < MaxStatements
    /\ \E memory_types \in MemoryTypeLists :
         memory' = Append(memory, [memory_types |-> memory_types,
                                   sql |-> SearchSql(memory_types),
                                   params |-> SearchParams(memory_types)])
    /\ UNCHANGED <<offRest, net, chunker, searcher, resolver, thresholds>>

SpecMemory == InitResolver /\ [][MemorySearch]_vars

\* ============================================================ properties

\* Two checkpoints that name the same place of the source.
SamePosition(a, b) ==
    /\ a.cursor = b.cursor
    /\ a.page = b.page
    /\ a.offset = b.offset
    /\ a.last_url = b.last_url

\* C1: when upsert raises in a run, the run ends raising with sync_state
\* holding status "error", the error message and the checkpoint the failed
\* batch was fetched with.
C1_UpsertErrorPersisted ==
    (pc = "failed" /\ hist.upsertRaised) =>
        /\ raised = "upsert_error"
        /\ syncState.exists
        /\ syncState.status = "error"
        /\ syncState.last_error = "upsert_error"
        /\ SamePosition(GetCheckpoint(syncState), checkpoint)

\* C2: while every batch has succeeded and no run was reset, a batch that a
\* run after the first over a paginated source fetches is not yet reflected
\* in storage, and every page before it is (or, in a dry run, was fetched by
\* this run).
C2_ResumeNoRefetchNoSkip ==
    (/\ adapter \notin Polling
     /\ hist.clean
     /\ runsLeft + 2 <= MaxRuns
     /\ pc = "transform") =>
        LET p == records[1][1] IN
        /\ p \notin hist.ingested
        /\ \A q \in 1..(p - 1) :
              q \in hist.ingested \/ (dry_run /\ q \in Range(hist.fetchLog))

\* The batches a run has upserted that lie past the stored checkpoint.
Replay ==
    Cardinality({p \in hist.runIngested : p > GetCheckpoint(syncState).page})

\* The checkpoint is in sync_state after every 10th batch of a non-dry run.
SavedEveryTenth ==
    (pc = "fetch" /\ ~dry_run /\ batch_count > 0 /\ batch_count % CheckpointEvery = 0) =>
        /\ syncState.exists
        /\ syncState.status = "running"
        /\ SamePosition(GetCheckpoint(syncState), checkpoint)

\* C3 as the specification states it: the checkpoint is saved after every 10th batch and a kill
\* leaves at most 9 upserted batches to replay.
C3_ReplayAtMostNine ==
    /\ SavedEveryTenth
    /\ pc = "killed" => Replay <= CheckpointEvery - 1

\* C3 as amended: the checkpoint is saved after every 10th batch and a kill
\* leaves at most 10 upserted batches to replay.
C3_ReplayAtMostTen ==
    /\ SavedEveryTenth
    /\ pc = "killed" => Replay <= CheckpointEvery

\* C3 witness: killed between the 10th upsert and the save that follows it.
C3_Witness == pc = "killed" /\ Replay = CheckpointEvery

\* C4: the loop is left normally exactly on an empty batch or at the limit,
\* fetch_batch is called at most max_batches times, and a non-dry run that
\* left the loop returns with the final checkpoint saved as "completed".
C4_LoopExitCompleted ==
    /\ pc \in {"final", "done"} => hist.loopExit \in {"empty", "max"}
    /\ hist.loopExit = "max" => (max_batches # NoLimit /\ batch_count >= max_batches)
    /\ hist.loopExit = "empty" => records = <<>>
    /\ max_batches # NoLimit => hist.fetches <= max_batches
    /\ (hist.loopExit # "none" /\ pc \in {"done", "failed"} /\ ~dry_run) =>
          /\ pc = "done"
          /\ syncState.status = "completed"
          /\ SamePosition(GetCheckpoint(syncState), checkpoint)

\* The records of kind k in the batches this run has fetched.
RECURSIVE CountKind(_, _)
CountKind(log, k) ==
    IF log = <<>> THEN 0
    ELSE Cardinality({r \in Range(PageRecs(Head(log))) : Kind(r) = k})
         + CountKind(Tail(log), k)

AfterBatch == {"upsert", "advance", "fetch", "final", "done", "failed"}

\* C5: after each batch every fetched record has been through transform once
\* and is counted once: as transformed, as skipped, or as a transform error;
\* in the generic pipeline a record that raises counts as an error, one that
\* is skipped as skipped, whatever came before it in the batch.
C5_TransformAccounting ==
    pc \in AfterBatch =>
        /\ hist.transformCalls = stats.records_fetched
        /\ stats.records_fetched =
              stats.records_transformed + stats.records_skipped
              + (stats.errors - hist.upsertErrs)
        /\ adapter = "generic" =>
              /\ stats.records_transformed = CountKind(hist.fetchLog, "ok")
              /\ stats.records_skipped = CountKind(hist.fetchLog, "skip")
              /\ stats.errors - hist.upsertErrs = CountKind(hist.fetchLog, "bad")

\* C5 witness: a batch whose first record raised, whose second was skipped
\* and whose later ones were transformed.
C5_Witness ==
    /\ adapter = "generic"
    /\ pc = "upsert"
    /\ Kind(records[1]) = "bad"
    /\ Kind(records[2]) = "skip"
    /\ transformed # <<>>
    /\ stats.errors >= 1
    /\ stats.records_skipped >= 1

C7_UpsertFailureBatchFatal ==
    (pc = "advance" /\ UpsertCalled) =>
        \A r \in Range(transformed) : table[r] >= 1

\* C8: within a run of an adapter with a paginated source no batch is
\* fetched twice.
C8_FetchMakesProgress ==
    adapter \notin Polling =>
        \A i, j \in 1..Len(hist.fetchLog) :
            i # j => hist.fetchLog[i] # hist.fetchLog[j]

\* C9: with no failure so far, upserting the batch just upserted once more
\* changes nothing, and no record has two rows.
C9_UpsertIdempotent ==
    (hist.clean /\ pc = "advance" /\ UpsertCalled) =>
        /\ AdapterUpsert(adapter, table, transformed, {}).table = table
        /\ \A r \in RecIds : table[r] <= 1

\* C10: after runs that all returned normally, records_processed is the sum
\* of their records_upserted.
C10_RecordsProcessedCumulative ==
    (hist.clean /\ pc = "done") =>
        syncState.records_processed = hist.cumUpserted

\* The state the thresholds give for spend / limit, compared as fractions.
RatioState(spend, limit) ==
    IF spend * 100 >= HaltThreshold * limit THEN "HALTED"
    ELSE IF spend * 100 >= WarningThreshold * limit THEN "WARNING"
    ELSE "NORMAL"

\* C11: for every ledger total, and in every status a task has got,
\* get_status gives NORMAL below the warning threshold, WARNING from it up to
\* the halt threshold and HALTED from the halt threshold on; of a limit of
\* 50.00, 20.00 is NORMAL, 45.00 is WARNING and 47.50 is HALTED.
C11_StatusThresholds ==
    /\ \A t \in 0..(2 * MonthlyBudget) :
          GetStatus(t, NewBreaker, {}).status.state = RatioState(t, MonthlyBudget)
    /\ GetStatus(8, NewBreaker, {}).status.state = "NORMAL"
    /\ GetStatus(18, NewBreaker, {}).status.state = "WARNING"
    /\ GetStatus(19, NewBreaker, {}).status.state = "HALTED"
    /\ \A c \in Callers :
          caller[c].status.state # "none" =>
              /\ caller[c].status.current_spend = caller[c].read
              /\ caller[c].status.state =
                    RatioState(caller[c].status.current_spend,
                               caller[c].status.budget_limit)

\* C11 witness: get_status has returned WARNING for a spend of 45.00 and
\* HALTED for one of 47.50.
C11_Witness ==
    /\ caller[1].op = "get_status" /\ caller[1].pc = "returned"
    /\ caller[1].status.state = "WARNING" /\ caller[1].status.current_spend = 18
    /\ caller[2].op = "get_status" /\ caller[2].pc = "returned"
    /\ caller[2].status.state = "HALTED" /\ caller[2].status.current_spend = 19

\* What a guarded or checked operation has done by the time it is over.
CheckedOps == {"check_budget", "guard"}

\* C12: check_budget raises BudgetExceededError exactly when the status it
\* computed is HALTED, carrying that status's current_spend, budget_limit and
\* percent_used; entering a guard is check_budget, so the guarded body never
\* begins under a HALTED status; leaving the guard changes neither ledger nor
\* breaker and lets an exception of the body through.
C12_CheckBudgetRaisesIffHalted ==
    /\ [](\A c \in Callers :
            (caller[c].op \in CheckedOps /\ caller[c].status.state # "none") =>
              /\ caller[c].status.state = StateFor(caller[c].status.percent_used)
              /\ (caller[c].err.kind = "BudgetExceededError")
                    <=> (caller[c].status.state = "HALTED")
              /\ caller[c].status.state = "HALTED" =>
                    /\ caller[c].pc = "raised"
                    /\ caller[c].body = "none"
                    /\ caller[c].err.current_spend = caller[c].status.current_spend
                    /\ caller[c].err.budget_limit = caller[c].status.budget_limit
                    /\ caller[c].err.percent_used = caller[c].status.percent_used
                    /\ caller[c].err.current_spend = caller[c].read
                    /\ caller[c].err.budget_limit = MonthlyBudget
              /\ caller[c].status.state # "HALTED" =>
                    /\ caller[c].op = "check_budget" =>
                          caller[c].pc = "returned" /\ caller[c].err = NoError
                    /\ caller[c].op = "guard" =>
                          /\ caller[c].pc = "body" <=> caller[c].body = "none"
                          /\ caller[c].body = "ok" =>
                                caller[c].pc = "returned" /\ caller[c].err = NoError
                          /\ caller[c].body = "error" =>
                                /\ caller[c].pc = "raised"
                                /\ caller[c].err.kind = "body_error")
    /\ [][\A c \in Callers :
            (caller[c].pc = "body" /\ caller'[c].pc # "body") =>
                /\ breaker' = breaker
                /\ cost_log' = cost_log
                /\ caller'[c].status = caller[c].status]_vars

\* C12 witness: one guard raised BudgetExceededError at 47.50 of 50.00 with
\* its body never run, another let the exception of its body through.
C12_Witness ==
    /\ caller[1].op = "guard" /\ caller[1].pc = "raised"
    /\ caller[1].err = BudgetExceededError(BudgetStatus("HALTED", 19, 95))
    /\ caller[1].body = "none"
    /\ caller[2].op = "guard" /\ caller[2].pc = "raised"
    /\ caller[2].body = "error" /\ caller[2].status.state = "WARNING"

\* C13: the monthly ceiling is hard: the ledger total of the month never
\* exceeds the budget limit, with one task embedding or with several
\* interleaved.
C13_LedgerNeverExceedsBudget ==
    cost_log.total <= MonthlyBudget

C15_SameTextOneProviderCall ==
    \A t \in Texts : sent[t] <= 1

\* The answer for a ledger total: the state and whether check_budget raises.
AnswerFor(total) ==
    LET state == RatioState(total, MonthlyBudget)
    IN  [state |-> state, raises |-> state = "HALTED"]

\* C16: the state get_status returns and whether check_budget raises depend
\* only on the ledger total that was read and on the thresholds, not on the
\* cached state of the breaker nor on earlier calls: tasks that read the same
\* total get the same answer from breakers with different histories, and a
\* breaker whose cached state is HALTED answers NORMAL, and caches NORMAL, as
\* soon as the total it reads is below the warning threshold.
C16_AnswerDependsOnLedgerOnly ==
    /\ [](\A c \in Callers :
            caller[c].status.state # "none" =>
              /\ caller[c].status.state = AnswerFor(caller[c].read).state
              /\ caller[c].op # "get_status" =>
                    (caller[c].err.kind = "BudgetExceededError")
                        <=> AnswerFor(caller[c].read).raises
              /\ \A d \in Callers :
                    (caller[d].status.state # "none"
                     /\ caller[d].read = caller[c].read) =>
                        caller[d].status.state = caller[c].status.state)
    /\ [][\A c \in Callers :
            (caller[c].pc = "compute" /\ caller'[c].pc # "compute") =>
                /\ caller'[c].status.state = AnswerFor(caller[c].read).state
                /\ breaker'[caller[c].b].state = AnswerFor(caller[c].read).state
                /\ (breaker[caller[c].b].state = "HALTED"
                    /\ caller[c].read * 100 < WarningThreshold * MonthlyBudget) =>
                        /\ caller'[c].status.state = "NORMAL"
                        /\ caller'[c].pc # "raised"]_vars

\* C16 witness: a breaker that had halted answered NORMAL to check_budget
\* after the month turned, as did one that had never halted.
C16_Witness ==
    /\ caller[1].op = "check_budget" /\ caller[1].b = 1
    /\ caller[1].pc = "returned" /\ caller[1].status.state = "NORMAL"
    /\ breaker[1].prev = "HALTED" /\ breaker[1].state = "NORMAL"
    /\ caller[2].op = "check_budget" /\ caller[2].b = 2
    /\ caller[2].pc = "returned" /\ caller[2].status.state = "NORMAL"
    /\ breaker[2].prev = "NORMAL"
    /\ caller[2].read = caller[1].read

\* The calls _update_state makes when the state goes from old to new with n
\* callbacks registered: each callback once, in order of registration.
ExpectedCalls(n, old, new) ==
    IF old = new THEN <<>> ELSE [i \in 1..n |-> <<i, old, new>>]

\* C17: every computation of the state whose result differs from the state
\* the breaker observed last (NORMAL at first) calls each registered callback
\* exactly once with (old state, new state), also when a callback raises; a
\* computation with the same result calls none, and nothing else calls one.
C17_CallbacksOncePerChange ==
    /\ [](\A b \in Breakers :
            /\ breaker[b].notified # <<>> => breaker[b].prev # breaker[b].state
            /\ \A i \in 1..Len(breaker[b].notified) :
                  breaker[b].notified[i] = <<i, breaker[b].prev, breaker[b].state>>)
    /\ [][\A c \in Callers :
            LET b == caller[c].b IN
            IF caller[c].pc = "compute" /\ caller'[c].pc # "compute"
            THEN /\ breaker'[b].state = RatioState(caller[c].read, MonthlyBudget)
                 /\ breaker'[b].notified =
                       ExpectedCalls(breaker[b].callbacks, breaker[b].state,
                                     breaker'[b].state)
            ELSE (\A d \in Callers : caller[d].pc = "compute" => caller'[d].pc = "compute")
                    => breaker'[b].notified = breaker[b].notified]_vars

\* C17 witness: with two callbacks registered the state went from WARNING to
\* HALTED and both were called with (WARNING, HALTED), in order.
C17_Witness ==
    /\ breaker[1].callbacks = 2
    /\ breaker[1].notified = << <<1, "WARNING", "HALTED">>, <<2, "WARNING", "HALTED">> >>

\* C18: of the calls that reach a bucket within one instant, those admitted
\* without waiting take together no more tokens than the bucket held at that
\* instant; every admission is deducted once, none is lost and no token is
\* granted twice, since one task at a time is between refill and deduction.
C18_NoOverAdmission ==
    /\ inst.immediate <= (IF inst.avail > 0 THEN inst.avail ELSE 0)
    /\ Available(bucket) = inst.avail - inst.deducted
    /\ Available(bucket) <= TestConfig.burst
    /\ \A c \in Tasks :
          task[c].pc = "sleeping" => (lock # <<>> /\ Head(lock) = c)

\* C18 witness: three tasks called acquire(1) at once on a bucket holding 2
\* tokens: two were admitted at once, the third is waiting.
C18_Witness ==
    /\ inst.avail = 2 /\ inst.immediate = 2
    /\ task[1].result = "0.0" /\ task[2].result = "0.0"
    /\ task[3].pc = "sleeping" /\ task[3].tokens = 1 /\ task[3].wait_time = 1
    /\ bucket.tokens = 0

\* C19: of the try_acquire(1) calls answered on a new bucket with no time
\* elapsed, the first burst ones succeed and every later one fails.
C19_BurstThenRefuse ==
    /\ inst.ok = Min(inst.tries, TestConfig.burst)
    /\ (inst.fresh /\ inst.pure) =>
          /\ bucket.tokens = TestConfig.burst - inst.ok
          /\ \A c \in Tasks :
                task[c].result = "False" => inst.tries > TestConfig.burst

\* C19 witness: four try_acquire(1) calls in a row on a new bucket of burst
\* 2, two of them granted, and no time has passed.
C19_Witness ==
    /\ inst.fresh
    /\ inst.tries = TestConfig.burst + 2
    /\ inst.ok = TestConfig.burst
    /\ task[1].result = "False"

\* C20: every acquire call returns: a task that finds too few tokens sleeps
\* once, for deficit * period / rate, holding the lock, and when the sleep is
\* over deducts and returns without looking at the tokens again; the tasks
\* waiting for the lock get it in the order they asked.
C20_AcquireReturns ==
    /\ [][\A c \in Tasks :
            /\ (task[c].pc = "queued" /\ task'[c].pc = "sleeping") =>
                  /\ task'[c].sleep * TestConfig.rate =
                        (task[c].tokens - bucket'.tokens) * TestConfig.period
                  /\ task'[c].sleep > 0
                  /\ task'[c].wait_time = task'[c].sleep
            /\ (task[c].pc = "sleeping" /\ task'[c] # task[c]) =>
                  \/ (task'[c].pc = "sleeping" /\ task'[c].sleep = task[c].sleep - 1)
                  \/ (task[c].sleep = 0 /\ task'[c].pc = "returned"
                      /\ task'[c].result = "wait_time")
            /\ (lock # <<>> /\ lock' # lock) =>
                  \/ lock' = Tail(lock)
                  \/ \E d \in Tasks : lock' = Append(lock, d)]_vars
    /\ \A c \in Tasks :
          (task[c].pc \in {"queued", "sleeping"}) ~> (task[c].pc = "returned")

\* C20 witness: while one task sleeps for 3 ticks with the lock, two more
\* wait for the lock behind it.
C20_Witness ==
    /\ Len(lock) = 3
    /\ task[lock[1]].pc = "sleeping" /\ task[lock[1]].wait_time = 3
    /\ task[lock[2]].pc = "queued" /\ task[lock[3]].pc = "queued"
    /\ bucket.tokens = 0

\* A step in which task c's try_acquire gives answer.
TryAnswers(c, answer) ==
    /\ task[c].pc = "queued" /\ task[c].op = "try_acquire"
    /\ task'[c].pc = "returned" /\ task'[c].result = answer

\* C21 as the specification states it: a try_acquire that reports failure
\* leaves tokens and last_refill as they were, one that reports success takes
\* exactly its tokens from those available.
C21_FailureLeavesStateUntouched ==
    [][\A c \in Tasks :
         /\ TryAnswers(c, "False") => bucket' = bucket
         /\ TryAnswers(c, "True") =>
               Available(bucket') = Available(bucket) - task[c].tokens]_vars

\* C21 as amended: a try_acquire that reports failure leaves the bucket
\* refilled up to now and otherwise as it was, so that the tokens available
\* are the same before and after; one that reports success takes exactly its
\* tokens from those available.
C21_FailureOnlyRefills ==
    [][\A c \in Tasks :
         /\ TryAnswers(c, "False") =>
               /\ bucket' = Refill(bucket, TestConfig)
               /\ Available(bucket') = Available(bucket)
               /\ Available(bucket) < task[c].tokens
         /\ TryAnswers(c, "True") =>
               /\ Available(bucket') = Available(bucket) - task[c].tokens
               /\ bucket'.tokens = Available(bucket) - task[c].tokens
               /\ bucket'.tokens >= 0]_vars

\* C21 witness: after time has passed one try_acquire was refused by a
\* bucket refilled to 1 token and another was granted.
C21_Witness ==
    /\ ~inst.fresh
    /\ task[1].result = "False" /\ task[2].result = "True"
    /\ bucket.tokens = 1 /\ bucket.elapsed = 0

\* C22: try_acquire answers without waiting for time to pass: a try_acquire
\* call that has not been answered is never held up by a task that sleeps
\* for a refill on the same bucket.
C22_TryAcquireNeverWaits ==
    \A c \in Tasks :
        (task[c].pc = "queued" /\ task[c].op = "try_acquire") =>
            ~\E d \in Tasks : task[d].pc = "sleeping" /\ task[d].sleep > 0

\* C23: a request goes out only from a call that has completed an acquire on
\* the bucket named after the service the request goes to.
C23_AcquireBeforeEveryRequest ==
    \A c \in Clients :
        net.client[c].pc \in {"request", "done"} =>
            /\ net.client[c].acquired = ServiceOf(net.client[c].site)
            /\ net.client[c].acquired \in net.limiters

\* A call of TextChunker.chunk_text with 0 <= overlap_tokens < max_tokens.
ProperOverlap ==
    /\ chunker.kind = "token"
    /\ chunker.overlap_tokens < chunker.max_tokens

\* C24: with 0 <= overlap_tokens < max_tokens, chunk_text on a non-empty
\* text comes to an end, and no chunk is emitted after one that reaches the
\* end of the text.
C24_ChunkTextTerminates ==
    /\ [](ProperOverlap =>
            \A i \in 1..(Len(chunker.chunks) - 1) :
                chunker.chunks[i].hi < chunker.total_tokens)
    /\ (ProperOverlap => <>(chunker.pc = "done"))

\* C25: with overlap_tokens >= max_tokens and a text longer than max_tokens
\* the loop of TextChunker.chunk_text is left, also when SentenceChunker
\* runs it on a sentence that is too long.
C25_StalledWindowDetected ==
    /\ (chunker.kind = "token"
        /\ chunker.overlap_tokens >= chunker.max_tokens
        /\ chunker.total_tokens > chunker.max_tokens) => <>(chunker.pc = "done")
    /\ []((chunker.pc = "loop" /\ chunker.overlap_tokens >= chunker.max_tokens)
            => <>(chunker.pc # "loop"))

\* C26: every chunk emitted by TextChunker and by SentenceChunker has at
\* most max_tokens tokens.
C26_ChunkWithinMaxTokens ==
    \A i \in 1..Len(chunker.chunks) :
        chunker.chunks[i].token_count <= chunker.max_tokens

\* The token numbers lo+1..hi in order.
TokensOf(lo, hi) == [k \in 1..Max(hi - lo, 0) |-> lo + k]

\* The chunks from the i-th on, concatenated, the first overlap tokens of
\* each but the first of all left out.
RECURSIVE Reassembled(_, _, _)
Reassembled(chunks, i, overlap) ==
    IF i > Len(chunks) THEN <<>>
    ELSE LET c == chunks[i]
             lo == IF i = 1 THEN c.lo ELSE Min(c.lo + overlap, c.hi)
         IN  TokensOf(lo, c.hi) \o Reassembled(chunks, i + 1, overlap)

\* C27: with 0 <= overlap_tokens < max_tokens the chunks of TextChunker are
\* numbered 0, 1, 2, ..., consecutive windows start max_tokens -
\* overlap_tokens apart, and the chunks of a finished call, the first
\* overlap_tokens tokens of every chunk but the first left out, give the
\* tokens of the text in order.
C27_WindowsReconstructText ==
    ProperOverlap =>
        /\ \A i \in 1..Len(chunker.chunks) : chunker.chunks[i].index = i - 1
        /\ \A i \in 1..(Len(chunker.chunks) - 1) :
              chunker.chunks[i + 1].lo - chunker.chunks[i].lo =
                  chunker.max_tokens - chunker.overlap_tokens
        /\ chunker.pc = "done" =>
              Reassembled(chunker.chunks, 1, chunker.overlap_tokens) =
                  TokensOf(0, chunker.total_tokens)

\* The ids of a list of results.
IdsOf(results) == {results[i].id : i \in DOMAIN results}

\* The term of an id in the fused score: weight / (60 + rank) with the rank
\* counted from 1, and 0 if the list does not hold the id.
RankTerm(results, id, tenths) ==
    IF id \in IdsOf(results)
    THEN [num |-> tenths,
          den |-> RRF_K + (CHOOSE i \in DOMAIN results : results[i].id = id)]
    ELSE Zero

Fused(id) ==
    Plus(RankTerm(searcher.vector_results, id, VectorWeight),
         RankTerm(searcher.keyword_results, id, KeywordWeight))

\* C28: what hybrid_search returns is the union of the vector and the keyword
\* candidates cut to limit, every id once, every result scored
\* 0.7/(60+v) + 0.3/(60+k) with a missing list counting 0, in order of
\* non-increasing score, and no candidate left out scores strictly higher
\* than one returned.
C28_HybridIsFusedUnion ==
    (searcher.pc = "done" /\ searcher.response.search_type = "hybrid") =>
        LET results == searcher.response.results
            union == IdsOf(searcher.vector_results)
                        \cup IdsOf(searcher.keyword_results)
        IN /\ IdsOf(results) \subseteq union
           /\ \A i, j \in DOMAIN results : i # j => results[i].id # results[j].id
           /\ Len(results) = Min(searcher.limit, Cardinality(union))
           /\ \A i \in DOMAIN results :
                /\ ~Greater(results[i].score, Fused(results[i].id))
                /\ ~Greater(Fused(results[i].id), results[i].score)
           /\ \A i, j \in DOMAIN results :
                i < j => ~Greater(results[j].score, results[i].score)
           /\ \A id \in union \ IdsOf(results) : \A i \in DOMAIN results :
                ~Greater(Fused(id), results[i].score)

\* C28 witness: a hybrid search returned fewer results than it had
\* candidates, one of them found by both searches and one candidate found by
\* the keyword search only.
C28_Witness ==
    /\ searcher.pc = "done" /\ searcher.response.search_type = "hybrid"
    /\ Len(searcher.response.results) = searcher.limit
    /\ Cardinality(IdsOf(searcher.vector_results)
                      \cup IdsOf(searcher.keyword_results)) > searcher.limit
    /\ \E i \in DOMAIN searcher.response.results :
          LET id == searcher.response.results[i].id
          IN id \in IdsOf(searcher.vector_results) /\
             id \in IdsOf(searcher.keyword_results)
    /\ IdsOf(searcher.keyword_results) \ IdsOf(searcher.vector_results) # {}

\* The row that a response is logged as.
LoggedAs(entry, query, search_type, response) ==
    /\ entry.query = query
    /\ entry.search_type = search_type
    /\ entry.result_count = Len(response.results)
    /\ entry.top_result_ids =
          [i \in 1..Min(TopIds, Len(response.results)) |->
              response.results[i].id]

C29_IdentifiersStayConsistent ==
    /\ [](\A r1, r2 \in resolver.identifiers :
             (r1.identifier_type = r2.identifier_type
              /\ r1.identifier_value = r2.identifier_value)
             => r1.canonical_id = r2.canonical_id)
    /\ [](\A r \in resolver.identifiers : r.canonical_id \in resolver.entities)
    /\ [][resolver'.last.op = "merge" =>
            LET primary_id == resolver'.last.primary
                secondary_id == resolver'.last.secondary
            IN /\ \A r \in resolver'.identifiers :
                    r.canonical_id # secondary_id
               /\ \A r \in resolver.identifiers :
                    r.canonical_id = secondary_id =>
                        [r EXCEPT !.canonical_id = primary_id]
                            \in resolver'.identifiers]_vars

MapsTo(r, id_type, id_value) ==
    {row.canonical_id : row \in
        {x \in Conflicting(r.identifiers, id_type, id_value) :
            x.canonical_id \in r.entities}}

\* The identifiers a resolved record came with.
GivenIdentifiers(call) ==
    {<<"uei", call.uei>>, <<"duns", call.duns>>}
        \ {<<"uei", None>>, <<"duns", None>>}

\* What a call of resolve_usaspending_recipient that led from old to new
\* had to do.
ResolvedAsSpecified(old, new) ==
    LET call == new.last
        by_uei == IF call.uei # None THEN MapsTo(old, "uei", call.uei) ELSE {}
        by_duns == IF call.duns # None
                   THEN MapsTo(old, "duns", call.duns) ELSE {}
        strong == IF by_uei # {} THEN by_uei ELSE by_duns
        similar(id) == NameSimilarity(old.names[id], call.name)
        best == {id \in old.entities :
                    /\ similar(id) >= AutoLinkThreshold
                    /\ \A other \in old.entities : similar(other) <= similar(id)}
    IN IF strong # {}
       THEN /\ call.primary \in strong
            /\ new.entities = old.entities /\ new.next_id = old.next_id
       ELSE IF best # {}
       THEN /\ call.primary \in best
            /\ new.entities = old.entities /\ new.next_id = old.next_id
            /\ \A given \in GivenIdentifiers(call) :
                  Conflicting(old.identifiers, given[1], given[2]) = {}
                  => IdentifierRow(call.primary, given[1], given[2])
                        \in new.identifiers
       ELSE /\ call.primary \notin old.entities
            /\ new.entities = old.entities \cup {call.primary}
            /\ new.next_id = old.next_id + 1
            /\ new.names[call.primary] = call.name
            /\ \A given \in GivenIdentifiers(call) :
                  IdentifierRow(call.primary, given[1], given[2])
                     \in new.identifiers

\* C32: resolve_usaspending_recipient returns the entity the UEI maps to, else
\* the one the DUNS maps to, and creates none; else it returns and links the
\* best name match if its similarity is at least 0.85; else it creates one
\* entity with the given identifiers and returns it.  Resolving the same
\* record once more returns the same id and creates no entity.
C32_ResolveReusesOrCreatesOnce ==
    /\ [][resolver'.last.op = "resolve" =>
            ResolvedAsSpecified(resolver, resolver')]_vars
    /\ [](resolver.last.op = "resolve" =>
            LET again == Resolved(resolver, resolver.last.name,
                                  resolver.last.uei, resolver.last.duns)
            IN /\ again.last.primary = resolver.last.primary
               /\ again.entities = resolver.entities
               /\ again.next_id = resolver.next_id)

\* C32 witness: a record with a UEI was resolved to an entity whose name is
\* not the record's but similar enough, and its UEI is linked to that entity;
\* two canonical entities exist.
C32_Witness ==
    /\ resolver.last.op = "resolve"
    /\ resolver.last.uei # None
    /\ resolver.last.primary \in resolver.entities
    /\ resolver.names[resolver.last.primary] # resolver.last.name
    /\ NameSimilarity(resolver.names[resolver.last.primary],
                      resolver.last.name) >= AutoLinkThreshold
    /\ IdentifierRow(resolver.last.primary, "uei", resolver.last.uei)
          \in resolver.identifiers
    /\ Cardinality(resolver.entities) = 2

\* C33: can_spend(estimated_cost) answers true exactly when
\* (current_spend + estimated_cost) / budget_limit is strictly below the halt
\* threshold, for positive, zero and negative costs; with a limit of 50 and a
\* halt threshold of 0.95, spend 48 allows -1.00 and not 1.00, spend 40
\* allows 5.00 and spend 45 does not.
C33_CanSpendBelowHalt ==
    /\ \A c \in Callers :
          (caller[c].op = "can_spend" /\ caller[c].pc = "returned") =>
             LET status == caller[c].status
                 projected == status.current_spend + caller[c].estimated_cost
             IN /\ caller[c].answer \in BOOLEAN
                /\ caller[c].answer
                      <=> (projected * 100 < HaltThreshold * status.budget_limit)
    /\ ~CanSpend(48, 1, 50) /\ CanSpend(48, 0 - 1, 50)
    /\ CanSpend(40, 5, 50) /\ ~CanSpend(45, 5, 50)

\* C33 witness: can_spend has answered no to a cost whose projection is
\* exactly at the halt threshold, and yes to a negative cost asked about
\* while the spend alone was at the threshold.
C33_Witness ==
    /\ caller[1].op = "can_spend" /\ caller[1].pc = "returned"
    /\ caller[1].answer = FALSE /\ caller[1].estimated_cost > 0
    /\ (caller[1].status.current_spend + caller[1].estimated_cost) * 100
          = HaltThreshold * MonthlyBudget
    /\ caller[2].op = "can_spend" /\ caller[2].pc = "returned"
    /\ caller[2].answer = TRUE /\ caller[2].estimated_cost < 0
    /\ caller[2].status.state = "HALTED"

\* C36: of an OpenSky response, exactly the state vectors that have a
\* timestamp become observations: one with neither time_position nor
\* last_contact is left out, and every complete one of the same response is
\* kept.
C36_NullTimestampSkipsOneVector ==
    [][(adapter = "opensky" /\ pc = "fetch" /\ hist'.fetches # hist.fetches
        /\ pc' # "failed") =>
          /\ \A r \in Range(records') : Kind(r) # "bad"
          /\ \A r \in Range(PageRecs(latest')) :
                (latest' > 0 /\ Kind(r) = "ok") => r \in Range(records')]_vars

\* C34: a breaker that has made a budget decision has a warning threshold and
\* a halt threshold within (0, 1].
C34_DecisionsUseValidThresholds ==
    (thresholds.state \in {"NORMAL", "WARNING", "HALTED"}
     /\ thresholds.percent_used > 0)
        => /\ 0 < thresholds.warning_threshold
           /\ thresholds.warning_threshold <= 100
           /\ 0 < thresholds.halt_threshold
           /\ thresholds.halt_threshold <= 100

\* C35: the statements MemoryStore.search issues for two non-empty
\* memory_types lists have the same text, no statement text holds a value of
\* memory_types, the values are bound as the parameter memory_types, and
\* without memory_types the statement has neither a type filter nor that
\* parameter.
C35_MemoryTypesOnlyAsParameter ==
    \A i \in DOMAIN memory :
        LET call == memory[i] IN
        /\ \A k \in DOMAIN call.memory_types :
              \A n \in DOMAIN call.sql : call.sql[n] # call.memory_types[k]
        /\ call.memory_types # <<>> =>
              /\ "memory_types" \in call.params
              /\ \A j \in DOMAIN memory :
                    memory[j].memory_types # <<>> => memory[j].sql = call.sql
        /\ call.memory_types = <<>> =>
              /\ "memory_types" \notin call.params
              /\ Len(call.sql) = 2

\* C37: whatever calls of acquire(n) and try_acquire(n) interleave, and also
\* for n above the burst, the tokens of a bucket stay between 0 and burst.
C37_TokensWithinBounds ==
    /\ 0 <= bucket.tokens
    /\ bucket.tokens <= TestConfig.burst

\* C38: at every moment the tokens granted since the bucket was created, by
\* acquire calls that returned and try_acquire calls that succeeded, are no
\* more than burst + rate * t / period, t being the time since creation.
C38_GrantsWithinAllowance ==
    inst.metered => inst.slack >= 0

\* C38 witness: acquire(3) on a new bucket of burst 2 returned after its
\* wait of one tick; the 3 tokens granted are the whole allowance so far.
C38_Witness ==
    /\ inst.metered /\ inst.slack = 0
    /\ bucket.tokens = TestConfig.burst - 3
    /\ \E c \in Tasks : task[c].result = "wait_time"

\* C39: embed_texts checks the budget before it looks up stored embeddings:
\* a lookup follows only a budget check that passed, and a call whose check
\* reads a ledger total in the HALTED range raises BudgetExceededError with
\* no lookup, no provider call and no result, also when every one of its
\* texts has a stored embedding.
C39_BudgetCheckBeforeLookup ==
    [][\A c \in Callers :
         caller[c].op = "embed_texts" =>
            /\ (caller[c].pc # "dedup" /\ caller'[c].pc = "dedup") =>
                  /\ caller[c].pc = "compute"
                  /\ StateFor(PercentUsed(caller[c].read, MonthlyBudget)) # "HALTED"
            /\ (/\ caller[c].pc = "compute" /\ caller'[c].pc # "compute"
                /\ StateFor(PercentUsed(caller[c].read, MonthlyBudget)) = "HALTED") =>
                  /\ caller'[c].pc = "raised"
                  /\ caller'[c].err.kind = "BudgetExceededError"
                  /\ caller'[c].todo = <<>>
                  /\ caller'[c].calls = 0
            /\ (caller[c].pc = "raised" /\ caller[c].err.kind = "BudgetExceededError") =>
                  caller'[c].pc \in {"raised", "read"}]_vars

\* C39 witness: both texts are stored, the ledger is at the budget, and an
\* embed_texts call for a stored text was refused.
C39_Witness ==
    /\ embeddings = {ComputeHash("a"), ComputeHash("b")}
    /\ StateFor(PercentUsed(cost_log.total, MonthlyBudget)) = "HALTED"
    /\ caller[1].op = "embed_texts" /\ caller[1].texts = <<"a">>
    /\ caller[1].pc = "raised" /\ caller[1].err.kind = "BudgetExceededError"

\* C40: a run of the SEC adapter leaves its loop as exhausted only with the
\* offset at the end of cik_list, also when every CIK of a batch yields no
\* data, and a run that has ended so persists that offset.
C40_ExhaustedOnlyAtEndOfList ==
    [][adapter = "sec" =>
         /\ (pc = "fetch" /\ hist'.loopExit = "empty") =>
               checkpoint.offset = numPages * BatchSize
         /\ (pc = "final" /\ pc' = "done" /\ hist.loopExit = "empty" /\ ~dry_run) =>
               syncState'.checkpoint.offset = numPages * BatchSize]_vars

====
